---------------------------- MODULE Spec2Model ----------------------------
(***************************************************************************)
(* Rule synthesis and governance subsystem of V_System: the acceptance     *)
(* pipeline of MetaEvolutionEngine (contradiction check, provability,      *)
(* confidence scoring, meta-patterns, commit) and the inverse-entailment   *)
(* search of InverseEntailmentEngine (bottom clause, beam search).         *)
(*                                                                         *)
(* Strings the code inspects character by character (rule ids, subdomains) *)
(* are sequences of one-character strings.  Floats are fixed-point         *)
(* integers in units of 1/Scale, every division rounding down.             *)
(***************************************************************************)
EXTENDS Integers, Sequences, FiniteSets, TLC

\* ------------------------------------------------------------------ bounds

\* process_candidate_rule calls made on one governor
MaxCalls == 3

\* ------------------------------------------------------------------- state

VARIABLES
    scoring_history,    \* ConfidenceScorer.scoring_history: <<rule id, score>> per score_rule call
    rule_performance    \* ConfidenceScorer.rule_performance: rule id -> [success, total]

VARIABLES
    R_global,            \* the global rule set, in insertion order
    meta_patterns,       \* [type, domain, count] records, in creation order
    rules_processed,
    rules_accepted,
    rules_rejected,
    heuristic_failures,
    patterns_discovered,
    call                 \* the last process_candidate_rule call: its argument,
                         \* the rule set it found, what it returned

govVars == <<R_global, meta_patterns, rules_processed, rules_accepted,
             rules_rejected, heuristic_failures, patterns_discovered, call,
             scoring_history, rule_performance>>

VARIABLES
    max_clause_length,           \* InverseEntailmentEngine.max_clause_length
    max_search_nodes,            \* InverseEntailmentEngine.max_search_nodes
    clauses_evaluated,
    bottom_clauses_constructed,
    ile_pc,        \* "idle", "search" (in the while loop), "returned", "raised"
    positive,      \* learn_clause's positive_examples
    negative,      \* learn_clause's negative_examples
    bottom,        \* Optional: the bottom clause of the call
    beam,
    best_clause,   \* Optional
    best_score,    \* [neg_inf, val]: float('-inf') or an integer
    nodes_explored,
    evaluated,     \* the <<clause, score>> pairs scored by the call, in order
    hypothesis,    \* Optional: what learn_clause returned
    ile_background, \* learn_clause's background
    variabilized   \* Optional: the _variabilize call, [head, body, clause]

ileVars == <<max_clause_length, max_search_nodes, clauses_evaluated,
             bottom_clauses_constructed, ile_pc, positive, negative, bottom,
             beam, best_clause, best_score, nodes_explored, evaluated,
             hypothesis, ile_background, variabilized>>

VARIABLES
    score_call     \* the last direct score_rule call: its arguments and outcome

scoreVars == <<score_call>>

VARIABLES
    learn_pc,      \* learn_from_examples: "idle", "patterns", "processing", "done"
    pending,       \* the candidates built by the call and not yet processed
    learned_rules, \* learned_rules of the call
    learn_result,  \* the last learn_from_examples call: len(examples), return
    learn_context  \* `context` of the call: examples[0]'s, or the default

learnVars == <<learn_pc, pending, learned_rules, learn_result, learn_context>>

VARIABLES
    pure_call      \* the last direct call of detect or analyze: arguments, result

pureVars == <<pure_call>>

VARIABLES
    R_local,           \* node id -> the node's rule list
    update_log,        \* node id -> the node's log of applied packages
    used_one_time,     \* SignatureManager: digests of the one-time signatures
    global_signature,  \* SignatureManager: the global signature
    packages_sent,     \* engine counter
    global_broadcasts, \* engine counter
    now,               \* time.time(), in hundredths of a second
    deliveries,        \* every receive_rule_package call: package, node, result
    dist_call          \* the last broadcast_global_rule or send_to_specific_nodes

fleetVars == <<R_local, update_log, used_one_time, global_signature,
               packages_sent, global_broadcasts, now, deliveries, dist_call>>

VARIABLES
    threads,      \* thread -> its position in process_candidate_rule, its locals
    conc_hist     \* calls started, ids accepted, ids removed by a replacement

concVars == <<threads, conc_hist>>

VARIABLES
    application_count,  \* Rule.application_count of one rule
    success_count,      \* Rule.success_count of that rule
    rule_call           \* the last is_applicable or apply call on it

ruleVars == <<application_count, success_count, rule_call>>

auxVars == <<scoreVars, learnVars, pureVars, fleetVars, concVars, ruleVars>>

\* auxVars without one group
exceptScore == <<learnVars, pureVars, fleetVars, concVars, ruleVars>>

exceptLearn == <<scoreVars, pureVars, fleetVars, concVars, ruleVars>>

exceptPure == <<scoreVars, learnVars, fleetVars, concVars, ruleVars>>

exceptFleet == <<scoreVars, learnVars, pureVars, concVars, ruleVars>>

exceptRule == <<scoreVars, learnVars, pureVars, fleetVars, concVars>>

exceptConc == <<scoreVars, learnVars, pureVars, fleetVars, ruleVars>>

vars == <<govVars, ileVars, auxVars>>

\* ------------------------------------------------------------- fixed point

Scale == 10 * 1000

Min(a, b) == IF a <= b THEN a ELSE b

Max(a, b) == IF a >= b THEN a ELSE b

RECURSIVE SumSeq(_)
SumSeq(s) == IF s = <<>> THEN 0 ELSE Head(s) + SumSeq(Tail(s))

\* ----------------------------------------------------------------- strings

UpperChars == <<"A","B","C","D","E","F","G","H","I","J","K","L","M",
                "N","O","P","Q","R","S","T","U","V","W","X","Y","Z">>

LowerChars == <<"a","b","c","d","e","f","g","h","i","j","k","l","m",
                "n","o","p","q","r","s","t","u","v","w","x","y","z">>

\* str.lower() on one character
LowerChar(c) ==
    IF \E k \in 1..Len(UpperChars) : UpperChars[k] = c
    THEN LowerChars[CHOOSE k \in 1..Len(UpperChars) : UpperChars[k] = c]
    ELSE c

\* str.lower()
Lower(s) == [i \in 1..Len(s) |-> LowerChar(s[i])]

\* the Python test `kw in s` on strings
IsSubstring(kw, s) ==
    \E i \in 0..(Len(s) - Len(kw)) : SubSeq(s, i + 1, i + Len(kw)) = kw

\* s[:n]
TakeOneLess(s, n) == SubSeq(s, 1, Min(n - 1, Len(s)))

Take(s, n) == SubSeq(s, 1, Min(n, Len(s)))

\* s.split('_'): the pieces between underscores, empty pieces included
RECURSIVE SplitUnderscore(_, _)
SplitUnderscore(s, cur) ==
    IF s = <<>> THEN <<cur>>
    ELSE IF Head(s) = "_" THEN <<cur>> \o SplitUnderscore(Tail(s), <<>>)
    ELSE SplitUnderscore(Tail(s), Append(cur, Head(s)))

IdWords(id) ==
    LET ws == SplitUnderscore(Lower(id), <<>>) IN {ws[i] : i \in 1..Len(ws)}

kw_expand == <<"e","x","p","a","n","d">>
kw_factor == <<"f","a","c","t","o","r">>
kw_simplify == <<"s","i","m","p","l","i","f","y">>
kw_complicate == <<"c","o","m","p","l","i","c","a","t","e">>
kw_differentiate == <<"d","i","f","f","e","r","e","n","t","i","a","t","e">>
kw_integrate == <<"i","n","t","e","g","r","a","t","e">>
kw_add == <<"a","d","d">>
kw_subtract == <<"s","u","b","t","r","a","c","t">>
kw_multiply == <<"m","u","l","t","i","p","l","y">>
kw_divide == <<"d","i","v","i","d","e">>
kw_specific == <<"s","p","e","c","i","f","i","c">>
kw_general == <<"g","e","n","e","r","a","l">>
kw_commutative == <<"c","o","m","m","u","t","a","t","i","v","e">>
kw_associative == <<"a","s","s","o","c","i","a","t","i","v","e">>
kw_distributive == <<"d","i","s","t","r","i","b","u","t","i","v","e">>
kw_identity == <<"i","d","e","n","t","i","t","y">>
kw_inverse == <<"i","n","v","e","r","s","e">>
kw_zero == <<"z","e","r","o">>
kw_ile == <<"i","l","e">>
kw_pattern == <<"p","a","t","t","e","r","n">>
kw_symbolic == <<"s","y","m","b","o","l","i","c">>
kw_synth == <<"s","y","n","t","h">>
kw_restricted_ == <<"r","e","s","t","r","i","c","t","e","d","_">>
kw_algebra == <<"a","l","g","e","b","r","a">>

\* ----------------------------------------------------------------- Context

NoSubdomain == [some |-> FALSE, val |-> <<>>]

Subdomain(s) == [some |-> TRUE, val |-> s]

\* Python truthiness of Optional[str]: None and "" are falsy
Truthy(sub) == sub.some /\ sub.val # <<>>

Context(d, sub, feats) == [domain |-> d, subdomain |-> sub, features |-> feats]

\* Context.similarity, in units of 1/Scale
Similarity(c1, c2) ==
    IF c1.domain # c2.domain THEN 0
    ELSE IF c1.subdomain = c2.subdomain THEN Scale
    ELSE IF Truthy(c1.subdomain) /\ Truthy(c2.subdomain) THEN Scale \div 2
    ELSE (7 * Scale) \div 10

math_algebra == Context("math", Subdomain(kw_algebra), {})

\* -------------------------------------------------------------------- Rule

Rule(id, dom, pri, conf, src) ==
    [id |-> id, domain |-> dom, priority |-> pri, confidence |-> conf,
     source |-> src]

\* rule ids: the core rules' (core_rules.py) and the candidates'
id_identity_add == <<"i","d","e","n","t","i","t","y","_","a","d","d">>

id_identity_add_rev == <<"i","d","e","n","t","i","t","y","_","a","d","d","_","r","e","v">>

id_identity_mul == <<"i","d","e","n","t","i","t","y","_","m","u","l">>

id_identity_mul_rev == <<"i","d","e","n","t","i","t","y","_","m","u","l","_","r","e","v">>

id_zero_mul == <<"z","e","r","o","_","m","u","l">>

id_commutative_add == <<"c","o","m","m","u","t","a","t","i","v","e","_","a","d","d">>

id_commutative_mul == <<"c","o","m","m","u","t","a","t","i","v","e","_","m","u","l">>

id_test_rule == <<"t","e","s","t","_","r","u","l","e">>

id_expand_a == <<"e","x","p","a","n","d","_","a">>

id_expand_b == <<"e","x","p","a","n","d","_","b">>

id_factor_x == <<"f","a","c","t","o","r","_","x">>

id_subtract_x == <<"s","u","b","t","r","a","c","t","_","x">>

DigitChars == <<"0","1","2","3","4","5","6","7","8","9">>

\* str(n) for n >= 0
RECURSIVE Decimal(_)
Decimal(n) ==
    IF n < 10 THEN <<DigitChars[n + 1]>>
    ELSE Decimal(n \div 10) \o <<DigitChars[(n % 10) + 1]>>

\* int(time.time() * 1000) % 10000 at the moments the model lets a rule id
\* be built
Millis == {41, 42}

kw_simple_ == <<"s","i","m","p","l","e","_">>

\* f"simple_{i}_{int(time.time() * 1000) % 10000}"
SimpleId(i, ms) == kw_simple_ \o Decimal(i) \o <<"_">> \o Decimal(ms)

\* _simple_rule_extraction(examples, context) for len(examples) = n and, as
\* context, the default of learn_from_examples; ms[i] is the clock at rule i
SimpleRuleExtraction(n, ms) ==
    [i \in 1..Min(n, 3) |->
        Rule(SimpleId(i - 1, ms[i]), math_algebra, 6,
             Scale \div 2 + (n * Scale) \div 20, "simple_extraction")]

\* _simple_rule_extraction(examples, context) for len(examples) = n
SimpleRuleExtractionIn(n, ms, context) ==
    [i \in 1..Min(n, 3) |->
        Rule(SimpleId(i - 1, ms[i]), context, 6,
             Scale \div 2 + (n * Scale) \div 20, "simple_extraction")]

\* the pattern recognizer is a producer of candidate patterns: any sequence
\* of up to MaxPatterns patterns, each a pattern_type and a confidence
MaxPatterns == 2

PatternTypes == {kw_expand, kw_factor}

PatternConfidences == {(5 * Scale) \div 10, (95 * Scale) \div 100}

Patterns == [pattern_type : PatternTypes, confidence : PatternConfidences]

RecognizePatterns ==
    UNION {[1..k -> Patterns] : k \in 0..MaxPatterns}

\* f"pattern_{pattern.pattern_type}_{int(time.time() * 1000) % 10000}"
PatternId(pattern_type, ms) ==
    kw_pattern \o <<"_">> \o pattern_type \o <<"_">> \o Decimal(ms)

\* _create_rule_from_pattern(pattern, context) at clock ms
CreateRuleFromPattern(pattern, context, ms) ==
    Rule(PatternId(pattern.pattern_type, ms), context, 7, pattern.confidence,
         "pattern_recognition")

\* ids given to detect and analyze directly
id_Expand_specific ==
    <<"E","x","p","a","n","d","_","s","p","e","c","i","f","i","c">>

id_factor_general == <<"f","a","c","t","o","r","_","g","e","n","e","r","a","l">>

id_mul_specific == <<"m","u","l","_","s","p","e","c","i","f","i","c">>

kw_geometry == <<"g","e","o","m","e","t","r","y">>

id_Distributive_law ==
    <<"D","i","s","t","r","i","b","u","t","i","v","e","_","l","a","w">>

id_zero_distributive == kw_zero \o <<"_">> \o kw_distributive

id_commutative_distributive == kw_commutative \o <<"_">> \o kw_distributive

id_inverse_associative == kw_inverse \o <<"_">> \o kw_associative

id_distributive_subtract == kw_distributive \o <<"_">> \o kw_subtract

id_associative_expand == kw_associative \o <<"_">> \o kw_expand

id_distributive_factor == kw_distributive \o <<"_">> \o kw_factor

\* create_core_rules(): the initial global rule set
CoreRules ==
    << Rule(id_identity_add, math_algebra, 10, Scale, "core"),
       Rule(id_identity_add_rev, math_algebra, 10, Scale, "core"),
       Rule(id_identity_mul, math_algebra, 9, Scale, "core"),
       Rule(id_identity_mul_rev, math_algebra, 9, Scale, "core"),
       Rule(id_zero_mul, math_algebra, 8, Scale, "core"),
       Rule(id_commutative_add, math_algebra, 7, Scale, "core"),
       Rule(id_commutative_mul, math_algebra, 7, Scale, "core") >>

\* the candidates submitted to the governor
Candidates ==
    { Rule(id_test_rule, math_algebra, 5, (8 * Scale) \div 10, "test"),
      Rule(id_expand_a, math_algebra, 5, (5 * Scale) \div 10, "test"),
      Rule(id_expand_b, math_algebra, 6, (5 * Scale) \div 10, "test"),
      Rule(id_factor_x, math_algebra, 5, (9 * Scale) \div 10, "manual"),
      Rule(id_factor_x, math_algebra, 10, (9 * Scale) \div 10, "manual"),
      Rule(id_factor_x, math_algebra, 4, (3 * Scale) \div 10, "test"),
      Rule(id_subtract_x, math_algebra, 5, Scale, "test"),
      Rule(id_test_rule, math_algebra, -40, (8 * Scale) \div 10, "manual"),
      Rule(id_factor_x, math_algebra, -11000, (9 * Scale) \div 10, "manual"),
      Rule(id_expand_a, Context("physics", NoSubdomain, {}), 5, (5 * Scale) \div 10, "test"),
      Rule(id_Distributive_law, Context("math", Subdomain(kw_algebra), {"linear"}),
           5, (5 * Scale) \div 10, "test"),
      Rule(id_associative_expand, math_algebra, 6, (5 * Scale) \div 10, "test"),
      Rule(id_distributive_factor, math_algebra, 3, (9 * Scale) \div 10, "manual") }

\* every rule id of the model; what the code computes from an id alone is
\* computed once per id below (the ...Of tables)
AllIds ==
    {r.id : r \in Candidates} \cup {CoreRules[i].id : i \in 1..Len(CoreRules)}
        \cup {SimpleId(i, ms) : i \in 0..2, ms \in Millis}
        \cup {PatternId(t, ms) : t \in PatternTypes, ms \in Millis}
        \cup {id_Expand_specific, id_factor_general, id_mul_specific}
        \cup {id_Distributive_law, id_zero_distributive,
              id_commutative_distributive, id_inverse_associative,
              id_distributive_subtract}

\* ------------------------------------------- HeuristicContradictionDetector

\* self.inverse_pairs
InversePairs ==
    { <<kw_expand, kw_factor>>, <<kw_simplify, kw_complicate>>,
      <<kw_differentiate, kw_integrate>>, <<kw_add, kw_subtract>>,
      <<kw_multiply, kw_divide>> }

AreInverseOperations(id1, id2) ==
    LET l1 == Lower(id1)
        l2 == Lower(id2)
    IN  \E p \in InversePairs :
            \/ IsSubstring(p[1], l1) /\ IsSubstring(p[2], l2)
            \/ IsSubstring(p[2], l1) /\ IsSubstring(p[1], l2)

InverseOperationsOf ==
    [a \in AllIds |-> [b \in AllIds |-> AreInverseOperations(a, b)]]

ContextsOverlap(c1, c2) == Similarity(c1, c2) > Scale \div 2

HavePriorityConflict(r1, r2) == r1.priority = r2.priority /\ r1.id # r2.id

IsSpecialCase(id1, id2) ==
    IsSubstring(kw_specific, Lower(id1)) /\ IsSubstring(kw_general, Lower(id2))

SpecialCaseOf ==
    [a \in AllIds |-> [b \in AllIds |-> IsSpecialCase(a, b)]]

\* detect(rule1, rule2): the conflict type, "NONE" when exists is false
\* detect with checks 1 and 2 in the other order
DetectOverlapFirst(r1, r2) ==
    IF Similarity(r1.domain, r2.domain) > (7 * Scale) \div 10
            /\ HavePriorityConflict(r1, r2)
    THEN "CONTEXT_OVERLAP"
    ELSE IF InverseOperationsOf[r1.id][r2.id] /\ ContextsOverlap(r1.domain, r2.domain)
    THEN "DIRECT_NEGATION"
    ELSE IF SpecialCaseOf[r1.id][r2.id]
    THEN "SPECIAL_GENERAL"
    ELSE "NONE"

\* detect(rule1, rule2).type
Detect(r1, r2) ==
    IF InverseOperationsOf[r1.id][r2.id] /\ ContextsOverlap(r1.domain, r2.domain)
    THEN "DIRECT_NEGATION"
    ELSE IF Similarity(r1.domain, r2.domain) > (7 * Scale) \div 10
            /\ HavePriorityConflict(r1, r2)
    THEN "CONTEXT_OVERLAP"
    ELSE IF SpecialCaseOf[r1.id][r2.id]
    THEN "SPECIAL_GENERAL"
    ELSE "NONE"

\* -------------------------------------------------------- ProvabilityEngine

RuleTypeKeywords ==
    << <<kw_commutative, "commutative">>, <<kw_associative, "associative">>,
       <<kw_distributive, "distributive">>, <<kw_identity, "identity">>,
       <<kw_inverse, "inverse">>, <<kw_zero, "zero">> >>

\* _get_rule_type returning the last keyword of the list found in the id
GetRuleTypeLastHit(id) ==
    LET l == Lower(id)
        hits == {k \in 1..Len(RuleTypeKeywords) : IsSubstring(RuleTypeKeywords[k][1], l)}
    IN  IF hits = {} THEN "general"
        ELSE RuleTypeKeywords[CHOOSE k \in hits : \A j \in hits : k >= j][2]

\* _get_rule_type: the first keyword of the ordered list found in the id
GetRuleType(id) ==
    LET l == Lower(id)
        hits == {k \in 1..Len(RuleTypeKeywords) : IsSubstring(RuleTypeKeywords[k][1], l)}
    IN  IF hits = {} THEN "general"
        ELSE RuleTypeKeywords[CHOOSE k \in hits : \A j \in hits : k <= j][2]

RuleTypeOf == [id \in AllIds |-> GetRuleType(id)]

IsDerivable(cand, existing) ==
    LET types == {RuleTypeOf[existing[i].id] : i \in 1..Len(existing)}
    IN  IF RuleTypeOf[cand.id] = "distributive"
        THEN "commutative" \in types /\ "associative" \in types
        ELSE FALSE

IsConsistent(cand, existing) ==
    \A i \in 1..Len(existing) : Detect(cand, existing[i]) # "DIRECT_NEGATION"

\* analyze that tests consistency before derivability
AnalyzeConsistencyFirst(cand, existing) ==
    IF ~IsConsistent(cand, existing) THEN "unprovable"
    ELSE IF IsDerivable(cand, existing) THEN "provable"
    ELSE "heuristic"

\* analyze(candidate, existing_rules)
Analyze(cand, existing) ==
    IF IsDerivable(cand, existing) THEN "provable"
    ELSE IF IsConsistent(cand, existing) THEN "heuristic"
    ELSE "unprovable"

\* --------------------------------------------------------- ConfidenceScorer

\* self.weights, in units of 1/Scale
Weights ==
    [provability |-> (30 * Scale) \div 100, consistency |-> (25 * Scale) \div 100,
     support |-> (20 * Scale) \div 100, performance |-> (15 * Scale) \div 100,
     complexity |-> (10 * Scale) \div 100]

ScoreProvability(provability) ==
    CASE provability = "provable" -> Scale
      [] provability = "heuristic" -> (7 * Scale) \div 10
      [] provability = "unprovable" -> (2 * Scale) \div 10
      [] OTHER -> Scale \div 2

ScoreConsistency(rule, existing) ==
    IF existing = <<>> THEN Scale \div 2
    ELSE LET conflicts == Cardinality({i \in 1..Len(existing) :
                                Detect(rule, existing[i]) = "DIRECT_NEGATION"})
             supports == Cardinality({i \in 1..Len(existing) :
                                Detect(rule, existing[i]) = "SPECIAL_GENERAL"})
             total == Len(existing)
         IN  IF conflicts > 0
             THEN (((3 * Scale) \div 10) * (total - conflicts)) \div total
             ELSE Scale \div 2 + ((Scale \div 2) * supports) \div total

IdWordsOf == [id \in AllIds |-> IdWords(id)]

AreSimilar(r1, r2) ==
    IF Similarity(r1.domain, r2.domain) < Scale \div 2 THEN FALSE
    ELSE LET w1 == IdWordsOf[r1.id]
             w2 == IdWordsOf[r2.id]
         IN  IF w1 = {} \/ w2 = {} THEN FALSE
             ELSE 10 * Cardinality(w1 \cap w2)
                     > 3 * Max(Cardinality(w1), Cardinality(w2))

ScoreSupport(rule, existing) ==
    IF existing = <<>> THEN (3 * Scale) \div 10
    ELSE LET similar == {i \in 1..Len(existing) : AreSimilar(rule, existing[i])}
             n == Cardinality(similar)
         IN  IF similar = {} THEN (4 * Scale) \div 10
             ELSE LET count_support == Min(Scale, (n * Scale) \div 5)
                      conf_sum == SumSeq([i \in 1..Len(existing) |->
                                     IF i \in similar THEN existing[i].confidence ELSE 0])
                      avg_confidence == conf_sum \div n
                      same_domain == Cardinality({i \in similar :
                                        existing[i].domain.domain = rule.domain.domain})
                      domain_support == (same_domain * Scale) \div n
                  IN  Min(Scale, (4 * count_support) \div 10
                                 + (4 * avg_confidence) \div 10
                                 + (2 * domain_support) \div 10)

ScorePerformance(rule) ==
    IF rule.id \notin DOMAIN rule_performance THEN Scale \div 2
    ELSE LET perf == rule_performance[rule.id]
         IN  IF perf.total = 0 THEN Scale \div 2
             ELSE LET success_rate == (perf.success * Scale) \div perf.total
                      sample_confidence == Min(Scale, (perf.total * Scale) \div 10)
                  IN  (success_rate * sample_confidence) \div Scale
                      + ((Scale \div 2) * (Scale - sample_confidence)) \div Scale

\* e^(y/Scale) for y >= 0 by its Taylor series, term k = term (k-1) * y / k
RECURSIVE ExpSeries(_, _, _)
ExpSeries(y, k, term) ==
    IF term = 0 \/ k > 24 THEN 0
    ELSE term + ExpSeries(y, k + 1, (term * y) \div (k * Scale))

\* math.exp(-y/Scale) in units of 1/Scale
ExpNeg(y) ==
    IF y >= 0 THEN (Scale * Scale) \div ExpSeries(y, 1, Scale)
    ELSE ExpSeries(-y, 1, Scale)

\* avg_complexity of _score_complexity
AvgComplexity(rule) ==
    LET priority_complexity == (rule.priority * Scale) \div 10
        feature_complexity ==
            Min(Scale, (Cardinality(rule.domain.features) * Scale) \div 5)
        id_complexity == Min(Scale, (Len(rule.id) * Scale) \div 50)
    IN  (priority_complexity + feature_complexity + id_complexity) \div 3

\* the largest x, in units of 1/Scale, for which math.exp(x) is a double:
\* 709.7827...; beyond it math.exp raises OverflowError
ExpOverflowAt == 709 * Scale + 7827

\* math.exp(-avg_complexity * 2) raises OverflowError
ComplexityRaises(rule) == -(2 * AvgComplexity(rule)) > ExpOverflowAt

ScoreComplexity(rule) == ExpNeg(2 * AvgComplexity(rule))

\* source_adjustments, in hundredths
SourceAdjustment(source) ==
    CASE source = "derived" -> 110
      [] source = "learned" -> 95
      [] source = "empirical" -> 90
      [] source = "pattern_recognition" -> 100
      [] source = "symbolic_regression" -> 95
      [] source = "synthesized_pattern" -> 100
      [] source = "synthesized_inductive" -> 90
      [] source = "synthesized_analogy" -> 85
      [] source = "simple_extraction" -> 80
      [] source = "inverse_entailment" -> 115
      [] source = "manual" -> 120
      [] source = "core" -> 130
      [] OTHER -> 100

ApplySourceAdjustment(score, source) == (score * SourceAdjustment(source)) \div 100

\* score_rule(rule, existing_rules, provability) ends in the OverflowError of
\* _score_complexity; nothing else in it can raise
ScoreRuleRaises(rule) == ComplexityRaises(rule)

\* score_rule(rule, existing_rules, provability)['final_score']
ScoreRule(rule, existing, provability) ==
    LET weighted ==
            ( ScoreProvability(provability) * Weights.provability
            + ScoreConsistency(rule, existing) * Weights.consistency
            + ScoreSupport(rule, existing) * Weights.support
            + ScorePerformance(rule) * Weights.performance
            + ScoreComplexity(rule) * Weights.complexity ) \div Scale
    IN  Max(0, Min(Scale, ApplySourceAdjustment(weighted, rule.source)))

\* ------------------------------------------------------ MetaEvolutionEngine

\* list.remove of the element the loop stands on (rules compare by identity)
RemoveAt(s, i) == SubSeq(s, 1, i - 1) \o SubSeq(s, i + 1, Len(s))

\* _resolve_contradictions(candidate): the status returned, the index of the
\* existing rule the loop returned at (0: none), the rule set and the
\* candidate as the call leaves them
ResolveContradictions(candidate, R) ==
    LET hits == {i \in 1..Len(R) :
                    Detect(candidate, R[i]) \in {"DIRECT_NEGATION", "CONTEXT_OVERLAP"}}
    IN  IF hits = {}
        THEN [status |-> "no_conflict", idx |-> 0, R |-> R, candidate |-> candidate]
        ELSE LET i == CHOOSE k \in hits : \A j \in hits : k <= j
                 existing == R[i]
             IN  IF Detect(candidate, existing) = "DIRECT_NEGATION"
                 THEN IF candidate.confidence > existing.confidence
                      THEN [status |-> "replaced", idx |-> i, R |-> RemoveAt(R, i),
                            candidate |-> candidate]
                      ELSE [status |-> "reject", idx |-> i, R |-> R,
                            candidate |-> candidate]
                 ELSE [status |-> "contextualized", idx |-> i, R |-> R,
                       candidate |->
                           [candidate EXCEPT !.domain =
                               Context(candidate.domain.domain,
                                       Subdomain(kw_restricted_ \o Take(candidate.id, 10)),
                                       candidate.domain.features \cup {"restricted"})]]

\* patterns of _classify_rule_type, in dict order
ClassifyKeywords ==
    << <<kw_ile, "inverse_entailment">>, <<kw_pattern, "recognized_pattern">>,
       <<kw_symbolic, "symbolic_regression">>, <<kw_synth, "synthesized">>,
       <<kw_commutative, "commutative_pattern">>,
       <<kw_associative, "associative_pattern">>,
       <<kw_distributive, "distributive_pattern">>,
       <<kw_identity, "identity_pattern">> >>

ClassifyRuleType(id) ==
    LET l == Lower(id)
        hits == {k \in 1..Len(ClassifyKeywords) : IsSubstring(ClassifyKeywords[k][1], l)}
    IN  IF hits = {} THEN "general_transform"
        ELSE ClassifyKeywords[CHOOSE k \in hits : \A j \in hits : k <= j][2]

ClassifiedTypeOf == [id \in AllIds |-> ClassifyRuleType(id)]

\* an extraction that matches a record by its type alone
ExtractByTypeOnly(rule, patterns) ==
    LET rule_type == ClassifiedTypeOf[rule.id]
        hits == {k \in 1..Len(patterns) : patterns[k].type = rule_type}
    IN  IF hits # {}
        THEN LET k == CHOOSE m \in hits : \A j \in hits : m <= j
             IN  [patterns |-> [patterns EXCEPT ![k].count = @ + 1],
                  new_pattern |-> FALSE, pattern_type |-> rule_type]
        ELSE [patterns |-> Append(patterns,
                  [type |-> rule_type, domain |-> rule.domain.domain, count |-> 1]),
              new_pattern |-> TRUE, pattern_type |-> rule_type]

\* _extract_meta_patterns(rule): the records afterwards and new_pattern
ExtractMetaPatterns(rule, patterns) ==
    LET rule_type == ClassifiedTypeOf[rule.id]
        hits == {k \in 1..Len(patterns) :
                    patterns[k].type = rule_type /\ patterns[k].domain = rule.domain.domain}
    IN  IF hits # {}
        THEN LET k == CHOOSE m \in hits : \A j \in hits : m <= j
             IN  [patterns |-> [patterns EXCEPT ![k].count = @ + 1],
                  new_pattern |-> FALSE, pattern_type |-> rule_type]
        ELSE [patterns |-> Append(patterns,
                  [type |-> rule_type, domain |-> rule.domain.domain, count |-> 1]),
              new_pattern |-> TRUE, pattern_type |-> rule_type]

NoReason == [kind |-> "none", id |-> <<>>]

NoCall ==
    [candidate |-> Rule(<<>>, Context("", NoSubdomain, {}), 0, 0, ""),
     before |-> <<>>, resolution |-> "none", idx |-> 0, status |-> "none",
     reason |-> NoReason, provability |-> "none", committed |-> FALSE,
     accepted_before |-> 0, history_before |-> <<>>, patterns_before |-> <<>>,
     candidate_after |-> Rule(<<>>, Context("", NoSubdomain, {}), 0, 0, ""),
     new_pattern |-> FALSE]

\* what process_candidate_rule returns, with the call's argument and the rule
\* set it found
CallRecord(candidate, resolution, status, reason, provability, committed) ==
    [candidate |-> candidate, before |-> R_global,
     resolution |-> resolution.status, idx |-> resolution.idx,
     status |-> status, reason |-> reason, provability |-> provability,
     committed |-> committed, accepted_before |-> rules_accepted,
     history_before |-> scoring_history, patterns_before |-> meta_patterns,
     candidate_after |-> resolution.candidate, new_pattern |-> FALSE]

\* the return at `if resolution["status"] == "reject"`
RejectContradiction(candidate, resolution) ==
    /\ rules_rejected' = rules_rejected + 1
    /\ heuristic_failures' = heuristic_failures + 1
    /\ R_global' = resolution.R
    /\ call' = CallRecord(candidate, resolution, "reject",
                          [kind |-> "contradicts", id |-> R_global[resolution.idx].id],
                          "none", FALSE)
    /\ UNCHANGED <<rules_accepted, meta_patterns, patterns_discovered,
                   scoring_history>>

\* the return at `if provability == "unprovable"`
RejectUnprovable(candidate, resolution, provability) ==
    /\ rules_rejected' = rules_rejected + 1
    /\ heuristic_failures' = heuristic_failures + 1
    /\ R_global' = resolution.R
    /\ call' = CallRecord(candidate, resolution, "rejected",
                          [kind |-> "unprovable", id |-> <<>>], provability, FALSE)
    /\ UNCHANGED <<rules_accepted, meta_patterns, patterns_discovered,
                   scoring_history>>

\* score_rule raises in phase 3: the exception leaves process_candidate_rule
\* with the rule set as _resolve_contradictions left it
RaiseInScoring(candidate, resolution, provability) ==
    /\ R_global' = resolution.R
    /\ call' = CallRecord(candidate, resolution, "raised",
                          [kind |-> "OverflowError", id |-> <<>>], provability, FALSE)
    /\ UNCHANGED <<rules_accepted, rules_rejected, heuristic_failures,
                   meta_patterns, patterns_discovered, scoring_history>>

\* phases 3 and 4 and the commit
ScoreAndCommit(candidate, resolution, provability) ==
    \E final_score \in {ScoreRule(resolution.candidate, resolution.R, provability)} :
    \E scored \in {[resolution.candidate EXCEPT
                       !.confidence = final_score,
                       !.source = IF provability = "provable"
                                  THEN "derived" ELSE "empirical"]} :
    \E pattern_result \in {ExtractMetaPatterns(scored, meta_patterns)} :
        /\ scoring_history' = Append(scoring_history, <<scored.id, final_score>>)
        /\ meta_patterns' = pattern_result.patterns
        /\ patterns_discovered' =
               IF pattern_result.new_pattern
               THEN patterns_discovered + 1 ELSE patterns_discovered
        /\ R_global' = Append(resolution.R, scored)
        /\ rules_accepted' = rules_accepted + 1
        /\ call' = [CallRecord(candidate, resolution, "accepted", NoReason,
                               provability, TRUE)
                        EXCEPT !.candidate_after = scored,
                               !.new_pattern = pattern_result.new_pattern]
        /\ UNCHANGED <<rules_rejected, heuristic_failures>>

\* the body of process_candidate_rule(candidate)
Process(candidate) ==
    /\ rules_processed' = rules_processed + 1
    /\ \E resolution \in {ResolveContradictions(candidate, R_global)} :
          IF resolution.status = "reject"
          THEN RejectContradiction(candidate, resolution)
          ELSE \E provability \in {Analyze(resolution.candidate, resolution.R)} :
                  IF provability = "unprovable"
                  THEN RejectUnprovable(candidate, resolution, provability)
                  ELSE IF ScoreRuleRaises(resolution.candidate)
                  THEN RaiseInScoring(candidate, resolution, provability)
                  ELSE ScoreAndCommit(candidate, resolution, provability)
    /\ UNCHANGED <<rule_performance, ileVars>>

\* process_candidate_rule(candidate), called on the governor
ProcessCandidateRule(candidate) ==
    /\ rules_processed < MaxCalls
    /\ Process(candidate)
    /\ UNCHANGED auxVars

\* MetaEvolutionEngine.__init__
InitGov ==
    /\ R_global = CoreRules
    /\ meta_patterns = <<>>
    /\ rules_processed = 0
    /\ rules_accepted = 0
    /\ rules_rejected = 0
    /\ heuristic_failures = 0
    /\ patterns_discovered = 0
    /\ call = NoCall
    /\ scoring_history = <<>>
    /\ rule_performance = <<>>

\* -------------------------------------------------- InverseEntailmentEngine

\* Optional[...]: None is the empty sequence, a value x is <<x>>
None == <<>>

Some(x) == <<x>>

Literal(p, ts, neg) == [predicate |-> p, terms |-> ts, negated |-> neg]

Clause(h, b) == [head |-> h, body |-> b]

\* str.isupper() on one character
IsUpperChar(c) == \E k \in 1..Len(UpperChars) : UpperChars[k] = c

\* Literal._is_variable: term and term[0].isupper()
IsVariable(t) == t # <<>> /\ IsUpperChar(t[1])

\* Literal.get_variables
GetVariables(lit) ==
    {lit.terms[i] : i \in {k \in 1..Len(lit.terms) : IsVariable(lit.terms[k])}}

\* Clause.length
ClauseLength(c) == Len(c.body)

\* an example in ground-fact form: a dict with 'predicate', 'terms',
\* 'negated' and a 'facts' list; has_predicate FALSE is a dict with none of
\* 'predicate', 'output', 'input'
Example(has, p, ts, fs) ==
    [has_predicate |-> has, predicate |-> p, terms |-> ts, negated |-> FALSE,
     facts |-> fs]

\* _example_to_literal(example, is_head)
ExampleToLiteral(example) ==
    IF example.has_predicate
    THEN Some(Literal(example.predicate, example.terms, example.negated))
    ELSE None

\* _extract_facts_from_example: the set of the literals of example['facts']
ExtractFactsFromExample(example) == example.facts

\* an _apply_clause that derives the head of the clause
ApplyClauseHead(clause, facts) == {clause.head}

\* _apply_clause
ApplyClause(clause, facts) == {}

\* the saturation loop of _construct_bottom_clause
RECURSIVE Saturate(_, _, _, _)
Saturate(body_literals, new_facts, iterations, background) ==
    IF new_facts # {} /\ iterations < 3
    THEN LET derived == UNION {ApplyClause(background[k], body_literals) :
                                    k \in 1..Len(background)}
         IN  Saturate(body_literals \cup (derived \ body_literals),
                      derived \ body_literals, iterations + 1, background)
    ELSE body_literals

\* the value of iterations when the saturation loop ends
RECURSIVE SaturateRounds(_, _, _, _)
SaturateRounds(body_literals, new_facts, iterations, background) ==
    IF new_facts # {} /\ iterations < 3
    THEN LET derived == UNION {ApplyClause(background[k], body_literals) :
                                    k \in 1..Len(background)}
         IN  SaturateRounds(body_literals \cup (derived \ body_literals),
                            derived \ body_literals, iterations + 1, background)
    ELSE iterations

\* get_variable over one term list: acc.map is constant_to_var as the
\* sequence of constants in the order their variables X0, X1, ... were made
RECURSIVE VariabilizeTerms(_, _)
VariabilizeTerms(terms, acc) ==
    IF terms = <<>> THEN acc
    ELSE LET t == Head(terms) IN
         IF IsUpperChar(t[1])
         THEN VariabilizeTerms(Tail(terms), [acc EXCEPT !.out = Append(@, t)])
         ELSE LET known == {k \in 1..Len(acc.map) : acc.map[k] = t}
                  k == IF known = {} THEN Len(acc.map) + 1 ELSE CHOOSE m \in known : TRUE
                  map == IF known = {} THEN Append(acc.map, t) ELSE acc.map
              IN  VariabilizeTerms(Tail(terms),
                      [map |-> map, out |-> Append(acc.out, <<"X">> \o Decimal(k - 1))])

RECURSIVE VariabilizeBody(_, _)
VariabilizeBody(body, map) ==
    IF body = <<>> THEN <<>>
    ELSE LET r == VariabilizeTerms(Head(body).terms, [map |-> map, out |-> <<>>])
         IN  <<Literal(Head(body).predicate, r.out, Head(body).negated)>>
             \o VariabilizeBody(Tail(body), r.map)

\* _variabilize(head, body): the clause with constants replaced by variables
Variabilize(head, body) ==
    LET h == VariabilizeTerms(head.terms, [map |-> <<>>, out |-> <<>>])
    IN  Clause(Literal(head.predicate, h.out, head.negated),
               VariabilizeBody(body, h.map))

\* list.sort(reverse=True, key=...) is stable: x goes behind every element
\* whose key is at least its own
RECURSIVE InsertByKeyDesc(_, _)
InsertByKeyDesc(sorted, x) ==
    IF sorted = <<>> THEN <<x>>
    ELSE IF Head(sorted)[1] >= x[1] THEN <<Head(sorted)>> \o InsertByKeyDesc(Tail(sorted), x)
    ELSE <<x>> \o sorted

RECURSIVE SortByKeyDesc(_)
SortByKeyDesc(s) ==
    IF s = <<>> THEN <<>>
    ELSE InsertByKeyDesc(SortByKeyDesc(SubSeq(s, 1, Len(s) - 1)), s[Len(s)])

\* _filter_relevant_literals with the slice one too long: scored[:max + 1]
FilterKeepsOneMore(head, body, maxlen) ==
    LET head_vars == GetVariables(head)
        scored == [i \in 1..Len(body) |->
                      <<Cardinality(head_vars \cap GetVariables(body[i])), body[i]>>]
        sorted == SortByKeyDesc(scored)
    IN  [i \in 1..Min(maxlen + 1, Len(sorted)) |-> sorted[i][2]]

\* _filter_relevant_literals(head, body)
FilterRelevantLiterals(head, body, maxlen) ==
    LET head_vars == GetVariables(head)
        scored == [i \in 1..Len(body) |->
                      <<Cardinality(head_vars \cap GetVariables(body[i])), body[i]>>]
        sorted == SortByKeyDesc(scored)
    IN  [i \in 1..Min(maxlen, Len(sorted)) |-> sorted[i][2]]

\* _construct_bottom_clause(example, background); body_list is list(body_literals),
\* the set's literals in the order the set yields them
ConstructBottomClause(example, background, body_list, maxlen) ==
    LET head == ExampleToLiteral(example) IN
    IF head = None THEN None
    ELSE LET v == Variabilize(head[1], body_list)
         IN  IF Len(v.body) > maxlen
             THEN Some(Clause(v.head, FilterRelevantLiterals(v.head, v.body, maxlen)))
             ELSE Some(v)

\* the literals _construct_bottom_clause puts in body_literals
BodyLiterals(example, background) ==
    LET example_facts == ExtractFactsFromExample(example)
    IN  Saturate(example_facts, example_facts, 0, background)

\* the orders in which list(set) can yield the elements of S
Orderings(S) ==
    {f \in [1..Cardinality(S) -> S] : \A i, j \in 1..Cardinality(S) : i # j => f[i] # f[j]}

\* _covers_example(clause, example, background)
CoversExample(clause, example) ==
    LET example_lit == ExampleToLiteral(example)
    IN  IF example_lit = None THEN FALSE
        ELSE clause.head.predicate = example_lit[1].predicate

\* _count_covered(clause, examples, background)
CountCovered(clause, examples) ==
    Cardinality({i \in 1..Len(examples) : CoversExample(clause, examples[i])})

\* an _evaluate_clause without the constant 1
EvaluateNoConstant(clause, pos, neg) ==
    CountCovered(clause, pos) - CountCovered(clause, neg) - ClauseLength(clause)

\* an _evaluate_clause without the length penalty
EvaluateIgnoresLength(clause, pos, neg) ==
    CountCovered(clause, pos) - CountCovered(clause, neg) - 1

\* _evaluate_clause: the compression measure
EvaluateClause(clause, pos, neg) ==
    CountCovered(clause, pos) - CountCovered(clause, neg) - ClauseLength(clause) - 1

\* _refine_clause with the slices meeting: body[:i] + body[i:], nothing removed
RefineKeepsAll(clause) ==
    [i \in 1..Len(clause.body) |->
        Clause(clause.head,
               SubSeq(clause.body, 1, i - 1) \o SubSeq(clause.body, i, Len(clause.body)))]

\* _refine_clause(clause)
RefineClause(clause) ==
    [i \in 1..Len(clause.body) |-> Clause(clause.head, RemoveAt(clause.body, i))]

BeamWidth == 10

EarlyExitNodes == 100

NegInf == [neg_inf |-> TRUE, val |-> 0]

\* score > best_score
Exceeds(score, best) == best.neg_inf \/ score > best.val

\* best_score > 0
IsPositive(best) == ~best.neg_inf /\ best.val > 0

\* the for loop over the beam: best_score and best_clause after scoring
\* beam[1..n] in order
RECURSIVE ScoreBeam(_, _, _, _)
ScoreBeam(bm, n, pos, neg) ==
    IF n = 0 THEN [score |-> best_score, clause |-> best_clause]
    ELSE LET prev == ScoreBeam(bm, n - 1, pos, neg)
             score == EvaluateClause(bm[n], pos, neg)
         IN  IF Exceeds(score, prev.score)
             THEN [score |-> [neg_inf |-> FALSE, val |-> score], clause |-> Some(bm[n])]
             ELSE prev

\* scored_beam.sort(reverse=True) compares (score, clause) tuples: two entries
\* of equal score and unequal clauses end up compared as clauses, and Clause
\* defines no order: TypeError.  (Entries adjacent in the sorted order are
\* always compared with each other.)
SortRaises(scored_beam) ==
    \E i, j \in 1..Len(scored_beam) :
        /\ i # j
        /\ scored_beam[i][1] = scored_beam[j][1]
        /\ scored_beam[i][2] # scored_beam[j][2]

RECURSIVE ConcatRefinements(_, _)
ConcatRefinements(sorted, n) ==
    IF n = 0 THEN <<>>
    ELSE ConcatRefinements(sorted, n - 1) \o RefineClause(sorted[n][2])

\* next_beam as a set: the refinements of the top beam_width clauses, without
\* duplicates, without those longer than max_clause_length
NextBeam(scored_beam, maxlen) ==
    LET sorted == SortByKeyDesc(scored_beam)
        refinements == ConcatRefinements(sorted, Min(BeamWidth, Len(sorted)))
    IN  {c \in {refinements[k] : k \in 1..Len(refinements)} : ClauseLength(c) <= maxlen}

\* the return with >= in place of >: a best score of zero returns the clause
SearchResultFromZero(clause, score) ==
    IF ~score.neg_inf /\ score.val >= 0 THEN clause ELSE None

\* return best_clause if best_score > 0 else None
SearchResult(clause, score) == IF IsPositive(score) THEN clause ELSE None

\* ----------------------------------------------- inputs of learn_clause

MaxClauseLength == 2

MaxSearchNodes == 4

MaxPositive == 3

MaxNegative == 1

DefaultMaxClauseLength == 4

DefaultMaxSearchNodes == 1000

term_a == <<"a">>

term_b == <<"b">>

term_c == <<"c">>

term_d == <<"d">>

term_X0 == <<"X","0">>

\* the facts a seed example may carry; neg(X0) has a term that already
\* reads as a variable
FactUniverse ==
    { Literal("neg", <<term_a>>, FALSE), Literal("neg", <<term_X0>>, FALSE),
      Literal("times", <<term_c, term_d>>, FALSE) }

Seeds ==
    {Example(TRUE, "plus", <<term_a, term_b>>, fs) : fs \in SUBSET FactUniverse}
    \cup {Example(FALSE, "", <<>>, fs) : fs \in {{}, FactUniverse}}

SamePredicate == Example(TRUE, "plus", <<term_c, term_d>>, {})

OtherPredicate == Example(TRUE, "times", <<term_a>>, {})

Unconvertible == Example(FALSE, "", <<>>, {})

Repeat(x, n) == [i \in 1..n |-> x]

\* the examples after the seed: i of the seed's predicate, j of another, k
\* that convert to no literal
Rests(n) ==
    {Repeat(SamePredicate, c[1]) \o Repeat(OtherPredicate, c[2])
        \o Repeat(Unconvertible, c[3]) :
        c \in {t \in (0..n) \X (0..n) \X (0..1) : t[1] + t[2] + t[3] <= n}}

PositiveInputs ==
    {<<>>} \cup {<<seed>> \o rest : seed \in Seeds, rest \in Rests(MaxPositive - 1)}

NegativeInputs ==
    {Repeat(SamePredicate, c[1]) \o Repeat(OtherPredicate, c[2]) :
        c \in {t \in (0..MaxNegative) \X (0..MaxNegative) : t[1] + t[2] <= MaxNegative}}

Backgrounds ==
    {<<>>, <<Clause(Literal("neg", <<term_X0>>, FALSE),
                    <<Literal("times", <<term_X0, term_X0>>, FALSE)>>)>>}

\* ------------------------------------------------------------ learn_clause

\* learn_clause up to the while loop of _search_hypothesis_space
LearnClause(pos, neg, background) ==
    /\ ile_pc = "idle"
    /\ positive' = pos
    /\ negative' = neg
    /\ ile_background' = background
    /\ IF pos = <<>>
       THEN /\ hypothesis' = None
            /\ ile_pc' = "returned"
            /\ UNCHANGED <<bottom, beam, bottom_clauses_constructed, variabilized>>
       ELSE IF ExampleToLiteral(pos[1]) = None
       THEN /\ bottom_clauses_constructed' = bottom_clauses_constructed + 1
            /\ hypothesis' = None
            /\ ile_pc' = "returned"
            /\ UNCHANGED <<bottom, beam, variabilized>>
       ELSE \E body_list \in Orderings(BodyLiterals(pos[1], background)) :
            /\ variabilized' =
                   Some([head |-> ExampleToLiteral(pos[1])[1], body |-> body_list,
                         clause |-> Variabilize(ExampleToLiteral(pos[1])[1],
                                                body_list)])
            /\ bottom' = ConstructBottomClause(pos[1], background, body_list,
                                               max_clause_length)
            /\ bottom_clauses_constructed' = bottom_clauses_constructed + 1
            /\ beam' = bottom'
            /\ ile_pc' = "search"
            /\ UNCHANGED hypothesis
    /\ UNCHANGED <<max_clause_length, max_search_nodes, clauses_evaluated,
                   best_clause, best_score, nodes_explored, evaluated, govVars, auxVars>>

\* one pass of the while loop of _search_hypothesis_space
SearchIteration ==
    /\ ile_pc = "search"
    /\ beam # <<>>
    /\ nodes_explored < max_search_nodes
    /\ LET scored_beam == [i \in 1..Len(beam) |->
                              <<EvaluateClause(beam[i], positive, negative), beam[i]>>]
           best == ScoreBeam(beam, Len(beam), positive, negative)
       IN  /\ nodes_explored' = nodes_explored + Len(beam)
           /\ clauses_evaluated' = clauses_evaluated + Len(beam)
           /\ evaluated' = evaluated \o [i \in 1..Len(beam) |->
                                            <<beam[i], scored_beam[i][1]>>]
           /\ best_score' = best.score
           /\ best_clause' = best.clause
           /\ IF SortRaises(scored_beam)
              THEN /\ ile_pc' = "raised"
                   /\ UNCHANGED <<beam, hypothesis>>
              ELSE /\ beam' \in Orderings(NextBeam(scored_beam, max_clause_length))
                   /\ IF nodes_explored' > EarlyExitNodes /\ ~IsPositive(best.score)
                      THEN /\ hypothesis' = SearchResult(best.clause, best.score)
                           /\ ile_pc' = "returned"
                      ELSE /\ ile_pc' = "search"
                           /\ UNCHANGED hypothesis
    /\ UNCHANGED <<max_clause_length, max_search_nodes, bottom_clauses_constructed,
                   positive, negative, bottom, ile_background, variabilized,
                   govVars, auxVars>>

\* the while condition fails: _search_hypothesis_space and learn_clause return
SearchExit ==
    /\ ile_pc = "search"
    /\ ~(beam # <<>> /\ nodes_explored < max_search_nodes)
    /\ hypothesis' = SearchResult(best_clause, best_score)
    /\ ile_pc' = "returned"
    /\ UNCHANGED <<max_clause_length, max_search_nodes, clauses_evaluated,
                   bottom_clauses_constructed, positive, negative, bottom, beam,
                   best_clause, best_score, nodes_explored, evaluated,
                   ile_background, variabilized, govVars, auxVars>>

\* InverseEntailmentEngine.__init__, with the two limits as given
InitILEWith(maxlen, maxnodes) ==
    /\ max_clause_length = maxlen
    /\ max_search_nodes = maxnodes
    /\ clauses_evaluated = 0
    /\ bottom_clauses_constructed = 0
    /\ ile_pc = "idle"
    /\ positive = <<>>
    /\ negative = <<>>
    /\ bottom = None
    /\ beam = <<>>
    /\ best_clause = None
    /\ best_score = NegInf
    /\ nodes_explored = 0
    /\ evaluated = <<>>
    /\ hypothesis = None
    /\ ile_background = <<>>
    /\ variabilized = None

\* --------------------------------------------- ConfidenceScorer, directly

\* update_performance calls made on one scorer
MaxUpdates == 2

\* the rules given to score_rule: ids with and without similar core rules,
\* priorities from far below zero to the core's highest, every kind of source
ScoredRules ==
    {Rule(id, math_algebra, pri, (5 * Scale) \div 10, src) :
        id \in {id_test_rule, id_identity_add, id_factor_x},
        pri \in {-11000, -40, 0, 10},
        src \in {"core", "manual", "simple_extraction", "test"}}

\* the rule sets given to score_rule
ExistingRuleSets ==
    { <<>>, CoreRules,
      Append(CoreRules, Rule(id_expand_a, math_algebra, 5, (5 * Scale) \div 10, "test")) }

Provabilities == {"provable", "heuristic", "unprovable", "unknown"}

NoScoreCall == [status |-> "none", rule |-> <<>>, existing |-> <<>>,
                support |-> 0, final_score |-> 0]

\* update_performance(rule_id, success); rule_performance is a defaultdict
UpdatePerformance(rule_id, success) ==
    /\ \A id \in DOMAIN rule_performance : rule_performance[id].total < MaxUpdates
    /\ LET old == IF rule_id \in DOMAIN rule_performance
                  THEN rule_performance[rule_id]
                  ELSE [success |-> 0, total |-> 0]
       IN  rule_performance' =
               [id \in DOMAIN rule_performance \cup {rule_id} |->
                   IF id = rule_id
                   THEN [success |-> old.success + (IF success THEN 1 ELSE 0),
                         total |-> old.total + 1]
                   ELSE rule_performance[id]]
    /\ UNCHANGED <<R_global, meta_patterns, rules_processed, rules_accepted,
                   rules_rejected, heuristic_failures, patterns_discovered, call,
                   scoring_history, ileVars, auxVars>>

\* score_rule(rule, existing_rules, provability), called on the scorer
ScoreRuleCall(rule, existing, provability) ==
    /\ score_call.status = "none"
    /\ IF ScoreRuleRaises(rule)
       THEN /\ score_call' = [status |-> "raised", rule |-> <<rule>>,
                              existing |-> existing, support |-> 0,
                              final_score |-> 0]
            /\ UNCHANGED scoring_history
       ELSE \E final_score \in {ScoreRule(rule, existing, provability)} :
            /\ score_call' = [status |-> "returned", rule |-> <<rule>>,
                              existing |-> existing,
                              support |-> ScoreSupport(rule, existing),
                              final_score |-> final_score]
            /\ scoring_history' = Append(scoring_history, <<rule.id, final_score>>)
    /\ UNCHANGED <<R_global, meta_patterns, rules_processed, rules_accepted,
                   rules_rejected, heuristic_failures, patterns_discovered, call,
                   rule_performance, ileVars, exceptScore>>

\* ------------------------------------------ detect and analyze, directly

\* the rules given to detect: ids that hold an inverse-pair keyword, a
\* specific/general keyword, both or neither; contexts of every similarity;
\* equal and unequal priorities
DetectIds == {id_Expand_specific, id_factor_general, id_mul_specific, id_test_rule}

DetectContexts ==
    { math_algebra, Context("math", Subdomain(kw_geometry), {}),
      Context("math", NoSubdomain, {}), Context("physics", NoSubdomain, {}) }

DetectRules ==
    {Rule(id, ctx, pri, (5 * Scale) \div 10, "test") :
        id \in DetectIds, ctx \in DetectContexts, pri \in {5, 6}}

NoPureCall == [fn |-> "none", args |-> <<>>, result |-> "none"]

\* detect(rule1, rule2).type, called on a detector
DetectCall(rule1, rule2) ==
    /\ pure_call.fn = "none"
    /\ pure_call' = [fn |-> "detect", args |-> <<rule1, rule2>>,
                     result |-> Detect(rule1, rule2)]
    /\ UNCHANGED <<govVars, ileVars, exceptPure>>

\* the contexts given to similarity: two domains; a subdomain that is absent
\* (None), the empty string, or one of two names; with and without a feature
SimContexts ==
    {Context(d, sub, f) :
        d \in {"math", "physics"},
        sub \in {NoSubdomain, Subdomain(<<>>), Subdomain(kw_algebra),
                 Subdomain(kw_geometry)},
        f \in {{}, {"linear"}}}

\* c1.similarity(c2), called on a context
SimilarityCall(c1, c2) ==
    /\ pure_call.fn = "none"
    /\ pure_call' = [fn |-> "similarity", args |-> <<c1, c2>>,
                     result |-> Similarity(c1, c2)]
    /\ UNCHANGED <<govVars, ileVars, exceptPure>>

\* the rules given to analyze: candidate ids that hold 'distributive' alone,
\* after a keyword listed later, after a keyword listed earlier, or not at
\* all, and ids that hold 'subtract', the inverse of the existing 'add' rules
AnalyzeCandidates ==
    {Rule(id, math_algebra, 5, (5 * Scale) \div 10, "test") :
        id \in {id_Distributive_law, id_zero_distributive,
                id_commutative_distributive, id_test_rule,
                id_subtract_x, id_distributive_subtract}}

AnalyzeExistingRules ==
    {Rule(id, math_algebra, 10, Scale, "core") :
        id \in {id_commutative_add, id_inverse_associative, id_identity_add,
                id_zero_distributive}}
        \cup {Rule(id_identity_add, Context("physics", NoSubdomain, {}), 10,
                   Scale, "core")}

MaxExisting == 2

AnalyzeExisting ==
    UNION {[1..n -> AnalyzeExistingRules] : n \in 0..MaxExisting}

\* analyze(candidate, existing_rules), called on a provability engine
AnalyzeCall(candidate, existing) ==
    /\ pure_call.fn = "none"
    /\ pure_call' = [fn |-> "analyze", args |-> <<candidate, existing>>,
                     result |-> Analyze(candidate, existing)]
    /\ UNCHANGED <<govVars, ileVars, exceptPure>>

\* --------------------------------------------- signatures, nodes, pipeline

StartsWith(s, prefix) ==
    Len(s) >= Len(prefix) /\ SubSeq(s, 1, Len(prefix)) = prefix

kw_sig_ == <<"s","i","g","_">>

kw_GLOBAL_SIG_ == <<"G","L","O","B","A","L","_","S","I","G","_">>

kw_GLOBAL_ == <<"G","L","O","B","A","L","_">>

\* str(time.time()) of a clock value in hundredths: 120 is "1.2", 125 "1.25"
TimeStr(t) ==
    Decimal(t \div 100) \o <<".">> \o
        (IF t % 10 = 0 THEN Decimal((t % 100) \div 10)
         ELSE Decimal((t % 100) \div 10) \o Decimal(t % 10))

\* hashlib.md5(s).hexdigest()[:n]: the digest is taken to be free of
\* collisions and is written as its input behind a mark; its hex digits and
\* its truncation to n digits are not modelled
Md5Hex(s) == <<"#">> \o s

\* SignatureManager.__init__ at time t
GlobalSignatureAt(t) == kw_GLOBAL_SIG_ \o Md5Hex(TimeStr(t))

\* SignatureManager.generate_one_time at time t
GenerateOneTime(used, t) ==
    LET sig == Md5Hex(TimeStr(t) \o Decimal(Cardinality(used)))
    IN  [used |-> used \cup {sig}, signature |-> kw_sig_ \o sig]

\* SignatureManager.is_valid
IsValid(signature) ==
    StartsWith(signature, kw_sig_) \/ StartsWith(signature, kw_GLOBAL_SIG_)

\* VPrimeNode._validate_signature accepting one-time signatures only
ValidateOneTimeOnly(signature) == StartsWith(signature, kw_sig_)

\* VPrimeNode._validate_signature
ValidateSignature(signature) ==
    StartsWith(signature, kw_sig_) \/ StartsWith(signature, kw_GLOBAL_)

\* RulePackage(...) as the engine builds it at time t
RulePackage(signature, target_node_ids, rule, operation, t) ==
    [signature |-> signature, target_node_ids |-> target_node_ids,
     target_context |-> rule.domain, rule |-> rule, operation |-> operation,
     priority |-> rule.priority, timestamp |-> t, source |-> "mee"]

NodeResult(status, reason, rule_id) ==
    [status |-> status, reason |-> reason, rule_id |-> rule_id]

\* a receive_rule_package that stores the rule of an 'add' package before it
\* looks at the signature
ReceiveAppendsFirst(rules, log, package) ==
    LET stored == IF package.operation = "add"
                  THEN Append(rules, package.rule) ELSE rules
    IN  IF ~ValidateSignature(package.signature)
        THEN [R_local |-> stored, update_log |-> log,
              result |-> NodeResult("rejected", "invalid_signature", <<>>)]
        ELSE IF package.operation = "add"
        THEN [R_local |-> stored,
              update_log |-> Append(log, [timestamp |-> package.timestamp,
                                          operation |-> "add",
                                          rule_id |-> package.rule.id]),
              result |-> NodeResult("added", "", package.rule.id)]
        ELSE [R_local |-> rules, update_log |-> log,
              result |-> NodeResult("unknown_operation", "", <<>>)]

\* VPrimeNode.receive_rule_package on a node with rule list rules and log
ReceiveRulePackage(rules, log, package) ==
    IF ~ValidateSignature(package.signature)
    THEN [R_local |-> rules, update_log |-> log,
          result |-> NodeResult("rejected", "invalid_signature", <<>>)]
    ELSE IF package.operation = "add"
    THEN [R_local |-> Append(rules, package.rule),
          update_log |-> Append(log, [timestamp |-> package.timestamp,
                                      operation |-> "add",
                                      rule_id |-> package.rule.id]),
          result |-> NodeResult("added", "", package.rule.id)]
    ELSE [R_local |-> rules, update_log |-> log,
          result |-> NodeResult("unknown_operation", "", <<>>)]

\* VPrimePipeline(num_layers, nodes_per_layer)
NumLayers == 2

NodesPerLayer == 2

NodeId(layer, col) == <<"L">> \o Decimal(layer) \o <<"_","C">> \o Decimal(col)

\* node_map in insertion order: layer by layer, column by column
NodeOrder ==
    [k \in 1..(NumLayers * NodesPerLayer) |->
        NodeId(((k - 1) \div NodesPerLayer) + 1, (k - 1) % NodesPerLayer)]

NodeIds == {NodeOrder[k] : k \in 1..Len(NodeOrder)}

\* the engine's and the nodes' state as one value
Fleet ==
    [R_local |-> R_local, update_log |-> update_log,
     used_one_time |-> used_one_time, global_signature |-> global_signature,
     packages_sent |-> packages_sent, global_broadcasts |-> global_broadcasts,
     now |-> now, deliveries |-> deliveries]

\* node.receive_rule_package(package) on node id of fleet fl
Deliver(fl, id, package) ==
    LET r == ReceiveRulePackage(fl.R_local[id], fl.update_log[id], package)
    IN  [fleet |-> [fl EXCEPT !.R_local[id] = r.R_local,
                              !.update_log[id] = r.update_log,
                              !.deliveries = Append(@, [package |-> package,
                                                        node_id |-> id,
                                                        result |-> r.result])],
         result |-> r.result]

CountStatus(results, statuses) ==
    Cardinality({i \in 1..Len(results) : results[i].result.status \in statuses})

\* `for node in self.get_all_nodes()` from the i-th node on
RECURSIVE BroadcastLoop(_, _, _, _)
BroadcastLoop(fl, package, i, results) ==
    IF i > Len(NodeOrder)
    THEN [fleet |-> fl,
          result |-> [nodes_updated |-> CountStatus(results, {"added"}),
                      total_nodes |-> Len(results), details |-> results]]
    ELSE LET d == Deliver(fl, NodeOrder[i], package)
         IN  BroadcastLoop(d.fleet, package, i + 1,
                           Append(results, [node_id |-> NodeOrder[i],
                                            result |-> d.result]))

\* broadcast_to_all that leaves the first node out
BroadcastFromSecond(fl, package) == BroadcastLoop(fl, package, 2, <<>>)

\* VPrimePipeline.broadcast_to_all
BroadcastToAll(fl, package) == BroadcastLoop(fl, package, 1, <<>>)

\* MetaEvolutionEngine.broadcast_global_rule
BroadcastGlobalRule(fl, rule, operation) ==
    LET package == RulePackage(fl.global_signature, None, rule, operation, fl.now)
        out == BroadcastToAll(fl, package)
    IN  [fleet |-> [out.fleet EXCEPT
                        !.packages_sent = @ + out.result.total_nodes,
                        !.global_broadcasts = @ + 1],
         result |-> out.result]

\* `for node_id in target_node_ids` from the i-th id on; the clock moves by
\* adv between two packages
RECURSIVE SendLoop(_, _, _, _, _, _, _)
SendLoop(fl, rule, targets, operation, adv, i, results) ==
    IF i > Len(targets)
    THEN [fleet |-> fl,
          result |-> [successful |-> CountStatus(results, {"added", "modified"}),
                      total |-> Len(results), details |-> results]]
    ELSE IF targets[i] \notin NodeIds
    THEN SendLoop(fl, rule, targets, operation, adv, i + 1,
                  Append(results, [node_id |-> targets[i],
                                   result |-> NodeResult("not_found", "", <<>>)]))
    ELSE LET g == GenerateOneTime(fl.used_one_time, fl.now)
             package == RulePackage(g.signature, Some(<<targets[i]>>), rule,
                                    operation, fl.now)
             d == Deliver([fl EXCEPT !.used_one_time = g.used], targets[i], package)
         IN  SendLoop([d.fleet EXCEPT !.packages_sent = @ + 1, !.now = @ + adv],
                      rule, targets, operation, adv, i + 1,
                      Append(results, [node_id |-> targets[i], result |-> d.result]))

\* the target ids up to the first one that names no node
RECURSIVE UpToMissing(_)
UpToMissing(targets) ==
    IF targets = <<>> THEN <<>>
    ELSE IF Head(targets) \notin NodeIds THEN <<Head(targets)>>
    ELSE <<Head(targets)>> \o UpToMissing(Tail(targets))

\* send_to_specific_nodes that leaves the loop at the first missing node
SendStopsAtMissing(fl, rule, targets, operation, adv) ==
    SendLoop(fl, rule, UpToMissing(targets), operation, adv, 1, <<>>)

\* MetaEvolutionEngine.send_to_specific_nodes
SendToSpecificNodes(fl, rule, targets, operation, adv) ==
    SendLoop(fl, rule, targets, operation, adv, 1, <<>>)

\* ------------------------------------------------- distribution, directly

\* distribution calls in one behaviour
MaxSends == 2

\* len(target_node_ids)
MaxTargets == 2

\* the clock at construction
StartTime == 120

DistRules ==
    { Rule(id_test_rule, math_algebra, 10, Scale, "test"),
      Rule(id_expand_a, math_algebra, 8, (9 * Scale) \div 10, "test") }

Operations == {"add", "modify"}

\* the id of a node and an id that names none
TargetIds == {NodeId(1, 0), NodeId(9, 9)}

TargetLists == UNION {[1..n -> TargetIds] : n \in 0..MaxTargets}

NoDistCall ==
    [fn |-> "none", n |-> 0, rule |-> <<>>, operation |-> "", targets |-> <<>>,
     result |-> <<>>, before |-> <<>>, first |-> 0]

\* the fleet after a call and the record of that call
Distributed(fn, rule, operation, targets, out) ==
    /\ R_local' = out.fleet.R_local
    /\ update_log' = out.fleet.update_log
    /\ used_one_time' = out.fleet.used_one_time
    /\ global_signature' = out.fleet.global_signature
    /\ packages_sent' = out.fleet.packages_sent
    /\ global_broadcasts' = out.fleet.global_broadcasts
    /\ deliveries' = out.fleet.deliveries
    /\ dist_call' = [fn |-> fn, n |-> dist_call.n + 1, rule |-> rule,
                     operation |-> operation, targets |-> targets,
                     result |-> out.result, before |-> R_local,
                     first |-> Len(deliveries)]

\* broadcast_global_rule(rule, operation); the clock moves by adv afterwards
BroadcastGlobalRuleCall(rule, operation, adv) ==
    /\ dist_call.n < MaxSends
    /\ \E out \in {BroadcastGlobalRule(Fleet, rule, operation)} :
           /\ Distributed("broadcast", rule, operation, <<>>, out)
           /\ now' = out.fleet.now + adv
    /\ UNCHANGED <<govVars, ileVars, exceptFleet>>

\* send_to_specific_nodes(rule, target_node_ids, operation)
SendToSpecificNodesCall(rule, targets, operation, adv) ==
    /\ dist_call.n < MaxSends
    /\ \E out \in {SendToSpecificNodes(Fleet, rule, targets, operation, adv)} :
           /\ Distributed("send", rule, operation, targets, out)
           /\ now' = out.fleet.now
    /\ UNCHANGED <<govVars, ileVars, exceptFleet>>

InitFleet ==
    /\ R_local = [id \in NodeIds |-> CoreRules]
    /\ update_log = [id \in NodeIds |-> <<>>]
    /\ used_one_time = {}
    /\ global_signature = GlobalSignatureAt(StartTime)
    /\ packages_sent = 0
    /\ global_broadcasts = 0
    /\ now = StartTime
    /\ deliveries = <<>>
    /\ dist_call = NoDistCall

\* ------------------------- process_candidate_rule called from two threads

\* The engine holds no lock. A thread can be suspended between the load and
\* the store of `self.x += 1` and at every print call between the phases;
\* each step below is the code between two such points.

\* threads that call process_candidate_rule
NumThreads == 2

Threads == 1..NumThreads

\* process_candidate_rule calls in one behaviour
MaxConcCalls == 3

ConcCandidates ==
    { Rule(id_expand_a, math_algebra, 5, (5 * Scale) \div 10, "test"),
      Rule(id_factor_x, math_algebra, 5, (9 * Scale) \div 10, "manual"),
      Rule(id_factor_x, math_algebra, 4, (3 * Scale) \div 10, "test") }

IdleThread ==
    [pc |-> "idle", candidate |-> NoCall.candidate, reg |-> 0,
     resolution |-> "none", provability |-> "none", status |-> "none",
     saw_half_done |-> FALSE]

\* thread t has removed a rule in _resolve_contradictions and has not yet
\* appended its candidate
InReplacement(t) ==
    /\ threads[t].resolution = "replaced"
    /\ threads[t].pc \in {"analyze", "score", "commit"}

\* thread t reads R_global while another thread is inside a replacement
SeesHalfDone(t) == \E u \in Threads \ {t} : InReplacement(u)

\* the call starts: the load of `self.rules_processed += 1`
Enter(t, candidate) ==
    /\ threads[t].pc \in {"idle", "done"}
    /\ conc_hist.started < MaxConcCalls
    /\ threads' = [threads EXCEPT ![t] =
                       [IdleThread EXCEPT !.pc = "store_processed",
                                          !.candidate = candidate,
                                          !.reg = rules_processed]]
    /\ conc_hist' = [conc_hist EXCEPT !.started = @ + 1]
    /\ UNCHANGED <<govVars, ileVars, exceptConc>>

\* the store of `self.rules_processed += 1`
StoreProcessed(t) ==
    /\ threads[t].pc = "store_processed"
    /\ rules_processed' = threads[t].reg + 1
    /\ threads' = [threads EXCEPT ![t].pc = "resolve"]
    /\ UNCHANGED <<R_global, meta_patterns, rules_accepted, rules_rejected,
                   heuristic_failures, patterns_discovered, call,
                   scoring_history, rule_performance, conc_hist, ileVars,
                   exceptConc>>

\* phase 1, _resolve_contradictions, up to the load of
\* `self.rules_rejected += 1` on reject
ResolveStep(t) ==
    /\ threads[t].pc = "resolve"
    /\ \E resolution \in {ResolveContradictions(threads[t].candidate, R_global)} :
          /\ R_global' = resolution.R
          /\ threads' = [threads EXCEPT ![t] =
                 [@ EXCEPT !.candidate = resolution.candidate,
                           !.resolution = resolution.status,
                           !.saw_half_done = @ \/ SeesHalfDone(t),
                           !.reg = rules_rejected,
                           !.pc = IF resolution.status = "reject"
                                  THEN "store_rejected" ELSE "analyze"]]
          /\ conc_hist' =
                 IF resolution.status = "replaced"
                 THEN [conc_hist EXCEPT !.replaced = @ \cup {R_global[resolution.idx].id}]
                 ELSE conc_hist
    /\ UNCHANGED <<meta_patterns, rules_processed, rules_accepted, rules_rejected,
                   heuristic_failures, patterns_discovered, call,
                   scoring_history, rule_performance, ileVars, exceptConc>>

\* phase 2, analyze, up to the load of `self.rules_rejected += 1` on
\* unprovable
AnalyzeStep(t) ==
    /\ threads[t].pc = "analyze"
    /\ \E provability \in {Analyze(threads[t].candidate, R_global)} :
          threads' = [threads EXCEPT ![t] =
              [@ EXCEPT !.provability = provability,
                        !.saw_half_done = @ \/ SeesHalfDone(t),
                        !.reg = rules_rejected,
                        !.pc = IF provability = "unprovable"
                               THEN "store_rejected" ELSE "score"]]
    /\ UNCHANGED <<govVars, conc_hist, ileVars, exceptConc>>

\* the store of `self.rules_rejected += 1`, `self.heuristic_failures += 1`
\* and the return
StoreRejected(t) ==
    /\ threads[t].pc = "store_rejected"
    /\ rules_rejected' = threads[t].reg + 1
    /\ heuristic_failures' = heuristic_failures + 1
    /\ threads' = [threads EXCEPT ![t].pc = "done", ![t].status = "rejected"]
    /\ UNCHANGED <<R_global, meta_patterns, rules_processed, rules_accepted,
                   patterns_discovered, call, scoring_history, rule_performance,
                   conc_hist, ileVars, exceptConc>>

\* phase 3, score_rule and the two assignments to the candidate
ScoreStep(t) ==
    /\ threads[t].pc = "score"
    /\ IF ScoreRuleRaises(threads[t].candidate)
       THEN /\ threads' = [threads EXCEPT ![t].pc = "done", ![t].status = "raised"]
            /\ UNCHANGED scoring_history
       ELSE \E final_score \in {ScoreRule(threads[t].candidate, R_global,
                                          threads[t].provability)} :
            /\ threads' = [threads EXCEPT ![t] =
                   [@ EXCEPT !.candidate.confidence = final_score,
                             !.candidate.source =
                                 IF threads[t].provability = "provable"
                                 THEN "derived" ELSE "empirical",
                             !.saw_half_done = @ \/ SeesHalfDone(t),
                             !.pc = "commit"]]
            /\ scoring_history' =
                   Append(scoring_history, <<threads[t].candidate.id, final_score>>)
    /\ UNCHANGED <<R_global, meta_patterns, rules_processed, rules_accepted,
                   rules_rejected, heuristic_failures, patterns_discovered, call,
                   rule_performance, conc_hist, ileVars, exceptConc>>

\* phase 4, the append and the load of `self.rules_accepted += 1`
CommitStep(t) ==
    /\ threads[t].pc = "commit"
    /\ \E pattern_result \in {ExtractMetaPatterns(threads[t].candidate, meta_patterns)} :
          /\ meta_patterns' = pattern_result.patterns
          /\ patterns_discovered' =
                 IF pattern_result.new_pattern
                 THEN patterns_discovered + 1 ELSE patterns_discovered
    /\ R_global' = Append(R_global, threads[t].candidate)
    /\ threads' = [threads EXCEPT ![t].pc = "store_accepted",
                                  ![t].reg = rules_accepted]
    /\ UNCHANGED <<rules_processed, rules_accepted, rules_rejected,
                   heuristic_failures, call, scoring_history, rule_performance,
                   conc_hist, ileVars, exceptConc>>

\* the store of `self.rules_accepted += 1` and the return
StoreAccepted(t) ==
    /\ threads[t].pc = "store_accepted"
    /\ rules_accepted' = threads[t].reg + 1
    /\ threads' = [threads EXCEPT ![t].pc = "done", ![t].status = "accepted"]
    /\ conc_hist' = [conc_hist EXCEPT !.accepted = @ \cup {threads[t].candidate.id}]
    /\ UNCHANGED <<R_global, meta_patterns, rules_processed, rules_rejected,
                   heuristic_failures, patterns_discovered, call,
                   scoring_history, rule_performance, ileVars, exceptConc>>

InitConc ==
    /\ threads = [t \in Threads |-> IdleThread]
    /\ conc_hist = [started |-> 0, accepted |-> {}, replaced |-> {}]

\* ------------------------------------------------------ learn_from_examples

\* len(examples) of a learn_from_examples call
MaxExamples == 11

NoLearnResult ==
    [examples |-> 0, status |-> "none", rules_learned |-> 0, error |-> "none"]

\* a learn_from_examples that turns away an empty list only
LearnTooFewEmptyOnly(n) ==
    /\ learn_pc = "idle"
    /\ IF n < 1
       THEN /\ learn_result' = [examples |-> n, status |-> "returned",
                                rules_learned |-> 0,
                                error |-> "insufficient_examples"]
            /\ UNCHANGED <<learn_pc, pending, learned_rules, learn_context>>
       ELSE /\ pending' = SimpleRuleExtraction(n, [i \in 1..3 |-> 41])
            /\ learned_rules' = <<>>
            /\ learn_pc' = "processing"
            /\ learn_result' = [examples |-> n, status |-> "running",
                                rules_learned |-> 0, error |-> "none"]
            /\ learn_context' = math_algebra
    /\ UNCHANGED <<govVars, ileVars, exceptLearn>>

\* learn_from_examples(examples) with n < 2 examples: the return at
\* `if len(examples) < 2`, on an engine that is in no other call
LearnTooFew(n) ==
    /\ learn_pc \in {"idle", "done"}
    /\ learn_result' = [examples |-> n, status |-> "returned",
                        rules_learned |-> 0, error |-> "insufficient_examples"]
    /\ UNCHANGED <<learn_pc, pending, learned_rules, learn_context, govVars,
                   ileVars, exceptLearn>>

\* learn_from_examples(examples) with n >= 2 examples from which strategies
\* 0 to 3 learn no rule, up to the end of _simple_rule_extraction
LearnFallback(n, ms) ==
    /\ learn_pc = "idle"
    /\ pending' = SimpleRuleExtraction(n, ms)
    /\ learned_rules' = <<>>
    /\ learn_pc' = "processing"
    /\ learn_result' = [examples |-> n, status |-> "running",
                        rules_learned |-> 0, error |-> "none"]
    /\ learn_context' = math_algebra
    /\ UNCHANGED <<govVars, ileVars, exceptLearn>>

\* one pass of `for rule in simple_rules`
ProcessExtracted ==
    /\ learn_pc = "processing"
    /\ pending # <<>>
    /\ Process(Head(pending))
    /\ pending' = Tail(pending)
    /\ learned_rules' = IF call'.status = "accepted"
                        THEN Append(learned_rules, R_global'[Len(R_global')])
                        ELSE learned_rules
    /\ UNCHANGED <<learn_pc, learn_result, learn_context, exceptLearn>>

\* `for rule in learned_rules` when no example names a target node or layer:
\* _determine_target_nodes is empty and every rule is broadcast
RECURSIVE DistributeAll(_, _)
DistributeAll(fl, rules) ==
    IF rules = <<>> THEN fl
    ELSE DistributeAll(BroadcastGlobalRule(fl, Head(rules), "add").fleet,
                       Tail(rules))

\* distribution that starts while simple_rules still holds rules
FinishLearnEarly ==
    /\ learn_pc = "processing"
    /\ learned_rules # <<>>
    /\ deliveries = <<>>
    /\ \E fl \in {DistributeAll(Fleet, learned_rules)} :
           /\ R_local' = fl.R_local
           /\ update_log' = fl.update_log
           /\ packages_sent' = fl.packages_sent
           /\ global_broadcasts' = fl.global_broadcasts
           /\ deliveries' = fl.deliveries
    /\ UNCHANGED <<govVars, ileVars, scoreVars, pureVars, concVars, ruleVars,
                   learn_pc, pending, learned_rules, learn_result,
                   learn_context, used_one_time, global_signature, now,
                   dist_call>>

\* the loop over simple_rules ends and the learned rules are distributed
FinishLearn ==
    /\ learn_pc = "processing"
    /\ pending = <<>>
    /\ learn_pc' = "done"
    /\ \E fl \in {DistributeAll(Fleet, learned_rules)} :
           /\ R_local' = fl.R_local
           /\ update_log' = fl.update_log
           /\ packages_sent' = fl.packages_sent
           /\ global_broadcasts' = fl.global_broadcasts
           /\ deliveries' = fl.deliveries
    /\ learn_result' = [learn_result EXCEPT
                            !.status = "returned",
                            !.rules_learned = Len(learned_rules)]
    /\ UNCHANGED <<govVars, ileVars, scoreVars, pureVars, concVars, ruleVars,
                   pending, learned_rules, learn_context, used_one_time,
                   global_signature, now, dist_call>>

\* `context` of a learn_from_examples call: examples[0]'s or the default
LearnContexts == {math_algebra, Context("physics", NoSubdomain, {})}

\* learn_from_examples(examples, use_inverse_entailment=False) with two
\* examples that are not numeric, up to the call of recognize_patterns;
\* ms[i] is the clock when the rule of pattern i is built
LearnPatterns(context, patterns, ms) ==
    /\ learn_pc = "idle"
    /\ pending' = [i \in 1..Len(patterns) |->
                       CreateRuleFromPattern(patterns[i], context, ms[i])]
    /\ learned_rules' = <<>>
    /\ learn_pc' = "patterns"
    /\ learn_result' = [examples |-> 2, status |-> "running",
                        rules_learned |-> 0, error |-> "none"]
    /\ learn_context' = context
    /\ UNCHANGED <<govVars, ileVars, exceptLearn>>

\* one pass of `for pattern in patterns`
ProcessPattern ==
    /\ learn_pc = "patterns"
    /\ pending # <<>>
    /\ Process(Head(pending))
    /\ pending' = Tail(pending)
    /\ learned_rules' = IF call'.status = "accepted"
                        THEN Append(learned_rules, R_global'[Len(R_global')])
                        ELSE learned_rules
    /\ UNCHANGED <<learn_pc, learn_result, learn_context, exceptLearn>>

\* the loop over patterns ends with no learned rule: strategies 2 and 3 are
\* skipped and `if not learned_rules` calls _simple_rule_extraction
PatternsFallback(ms) ==
    /\ learn_pc = "patterns"
    /\ pending = <<>>
    /\ learned_rules = <<>>
    /\ pending' = SimpleRuleExtractionIn(learn_result.examples, ms, learn_context)
    /\ learn_pc' = "processing"
    /\ UNCHANGED <<learned_rules, learn_result, learn_context, govVars,
                   ileVars, exceptLearn>>

\* the loop over patterns ends with learned rules: strategies 2 to 4 are
\* skipped and the learned rules are distributed
FinishPatterns ==
    /\ learn_pc = "patterns"
    /\ pending = <<>>
    /\ learned_rules # <<>>
    /\ learn_pc' = "done"
    /\ \E fl \in {DistributeAll(Fleet, learned_rules)} :
           /\ R_local' = fl.R_local
           /\ update_log' = fl.update_log
           /\ packages_sent' = fl.packages_sent
           /\ global_broadcasts' = fl.global_broadcasts
           /\ deliveries' = fl.deliveries
    /\ learn_result' = [learn_result EXCEPT
                            !.status = "returned",
                            !.rules_learned = Len(learned_rules)]
    /\ UNCHANGED <<govVars, ileVars, scoreVars, pureVars, concVars, ruleVars,
                   pending, learned_rules, learn_context, used_one_time,
                   global_signature, now, dist_call>>

\* ------------------------------------------- receive_rule_package, directly

MaxReceives == 2

\* the signatures of the packages handed to a node: the manager's global and
\* one-time signatures, a string that starts with GLOBAL_ but not with
\* GLOBAL_SIG_, and strings without such a start
Signatures ==
    { GlobalSignatureAt(StartTime), GenerateOneTime({}, StartTime).signature,
      kw_GLOBAL_ \o <<"x">>, <<"b","a","d">>, <<>>,
      <<"S","I","G","_","x">>, <<"x">> \o kw_sig_ }

ReceivingNodes == {NodeId(1, 0), NodeId(NumLayers, NodesPerLayer - 1)}

\* node.receive_rule_package(package), called on the node id
ReceiveRulePackageCall(id, signature, rule, operation) ==
    /\ Len(deliveries) < MaxReceives
    /\ \E out \in {Deliver(Fleet, id, RulePackage(signature, <<id>>, rule,
                                                   operation, now))} :
          /\ R_local' = out.fleet.R_local
          /\ update_log' = out.fleet.update_log
          /\ deliveries' = out.fleet.deliveries
    /\ UNCHANGED <<used_one_time, global_signature, packages_sent,
                   global_broadcasts, now, dist_call, govVars, ileVars,
                   exceptFleet>>

\* ----------------------------------------------------------- Rule, directly

\* what a call of the rule's condition or transform does: it returns a value
\* or raises an Exception
Returns(v) == [raises |-> FALSE, value |-> v]

Raises == [raises |-> TRUE, value |-> 0]

\* the expressions given to a rule and returned by its transform
Expressions == {"x + 0", "x", "0"}

\* the conditions' values: the ternary values and one that is none of them
ConditionOutcomes == {Returns(v) : v \in {-1, 0, 1, 2}} \cup {Raises}

TransformOutcomes == {Returns(e) : e \in Expressions} \cup {Raises}

MaxApplications == 4

NoRuleCall == [fn |-> "none", expr |-> "", outcome |-> Raises, result |-> 0,
               applications_before |-> 0, successes_before |-> 0]

\* Rule.is_applicable: the value returned, the condition doing `outcome`
IsApplicable(outcome) ==
    IF outcome.raises THEN -1 ELSE outcome.value

\* an apply that counts the success before it calls the transform
ApplyCountsFirst(expr, outcome) ==
    [application_count |-> application_count + 1,
     success_count |-> success_count + 1,
     result |-> IF outcome.raises THEN expr ELSE outcome.value]

\* Rule.apply: the counters afterwards and the value returned
Apply(expr, outcome) ==
    [application_count |-> application_count + 1,
     success_count |-> IF outcome.raises THEN success_count
                       ELSE success_count + 1,
     result |-> IF outcome.raises THEN expr ELSE outcome.value]

\* rule.is_applicable(expr, context_bundle, refs)
IsApplicableCall(expr, outcome) ==
    /\ rule_call' = [fn |-> "is_applicable", expr |-> expr, outcome |-> outcome,
                     result |-> IsApplicable(outcome),
                     applications_before |-> application_count,
                     successes_before |-> success_count]
    /\ UNCHANGED <<application_count, success_count, govVars, ileVars,
                   exceptRule>>

\* rule.apply(expr)
ApplyCall(expr, outcome) ==
    /\ application_count < MaxApplications
    /\ \E r \in {Apply(expr, outcome)} :
          /\ application_count' = r.application_count
          /\ success_count' = r.success_count
          /\ rule_call' = [fn |-> "apply", expr |-> expr, outcome |-> outcome,
                           result |-> r.result,
                           applications_before |-> application_count,
                           successes_before |-> success_count]
    /\ UNCHANGED <<govVars, ileVars, exceptRule>>

\* Rule.__init__
InitRule ==
    /\ application_count = 0
    /\ success_count = 0
    /\ rule_call = NoRuleCall

InitAux ==
    /\ score_call = NoScoreCall
    /\ learn_pc = "idle"
    /\ pending = <<>>
    /\ learned_rules = <<>>
    /\ learn_result = NoLearnResult
    /\ learn_context = math_algebra
    /\ pure_call = NoPureCall
    /\ InitFleet
    /\ InitConc
    /\ InitRule

\* ---------------------------------------------------------- specifications

\* the governor: any sequence of process_candidate_rule calls
Init ==
    /\ InitGov
    /\ InitILEWith(DefaultMaxClauseLength, DefaultMaxSearchNodes)
    /\ InitAux

Next == \E candidate \in Candidates : ProcessCandidateRule(candidate)

Spec == Init /\ [][Next]_vars

\* one learn_clause call on an engine whose limits are any positive values
InitILE ==
    /\ InitGov
    /\ InitAux
    /\ \E maxlen \in 1..MaxClauseLength, maxnodes \in 1..MaxSearchNodes :
           InitILEWith(maxlen, maxnodes)

NextILE ==
    \/ \E pos \in PositiveInputs, neg \in NegativeInputs, background \in Backgrounds :
           LearnClause(pos, neg, background)
    \/ SearchIteration
    \/ SearchExit

SpecILE == InitILE /\ [][NextILE]_vars

\* learn_clause on an engine with the default limits
SpecILEDefault == Init /\ [][NextILE]_vars

\* a scorer: update_performance calls, then one score_rule call
NextScore ==
    \/ \E rule_id \in {id_test_rule, id_factor_x}, success \in BOOLEAN :
           UpdatePerformance(rule_id, success)
    \/ \E rule \in ScoredRules, existing \in ExistingRuleSets,
          provability \in Provabilities :
           ScoreRuleCall(rule, existing, provability)

SpecScore == Init /\ [][NextScore]_vars

\* one learn_from_examples call that falls back to simple extraction
NextLearn ==
    \/ \E n \in 2..MaxExamples, ms \in [1..3 -> Millis] : LearnFallback(n, ms)
    \/ \E n \in 0..1 : LearnTooFew(n)
    \/ ProcessExtracted
    \/ FinishLearn

SpecLearn == Init /\ [][NextLearn]_vars

\* one learn_from_examples call whose rules come from the pattern recognizer
NextLearnPatterns ==
    \/ \E context \in LearnContexts, patterns \in RecognizePatterns,
          ms \in [1..MaxPatterns -> Millis] :
           LearnPatterns(context, patterns, ms)
    \/ ProcessPattern
    \/ \E ms \in [1..3 -> Millis] : PatternsFallback(ms)
    \/ ProcessExtracted
    \/ FinishLearn
    \/ FinishPatterns

SpecLearnPatterns == Init /\ [][NextLearnPatterns]_vars

\* one detect call or one analyze call
NextPure ==
    \/ \E rule1 \in DetectRules, rule2 \in DetectRules : DetectCall(rule1, rule2)
    \/ \E candidate \in AnalyzeCandidates, existing \in AnalyzeExisting :
           AnalyzeCall(candidate, existing)
    \/ \E c1 \in SimContexts, c2 \in SimContexts : SimilarityCall(c1, c2)

SpecPure == Init /\ [][NextPure]_vars

\* packages handed to nodes one by one
NextNode ==
    \E id \in ReceivingNodes, signature \in Signatures, rule \in DistRules,
       operation \in Operations :
        ReceiveRulePackageCall(id, signature, rule, operation)

SpecNode == Init /\ [][NextNode]_vars

\* is_applicable and apply calls on one rule
NextRule ==
    \/ \E expr \in Expressions, outcome \in ConditionOutcomes :
           IsApplicableCall(expr, outcome)
    \/ \E expr \in Expressions, outcome \in TransformOutcomes :
           ApplyCall(expr, outcome)

SpecRule == Init /\ [][NextRule]_vars

\* broadcasts and targeted sends
NextFleet ==
    \/ \E rule \in DistRules, operation \in Operations, adv \in {0, 1} :
           BroadcastGlobalRuleCall(rule, operation, adv)
    \/ \E rule \in DistRules, targets \in TargetLists,
          operation \in Operations, adv \in {0, 1} :
           SendToSpecificNodesCall(rule, targets, operation, adv)

SpecFleet == Init /\ [][NextFleet]_vars

\* process_candidate_rule calls of threads that share one engine
NextConc ==
    \/ \E t \in Threads, candidate \in ConcCandidates : Enter(t, candidate)
    \/ \E t \in Threads : StoreProcessed(t)
    \/ \E t \in Threads : ResolveStep(t)
    \/ \E t \in Threads : AnalyzeStep(t)
    \/ \E t \in Threads : StoreRejected(t)
    \/ \E t \in Threads : ScoreStep(t)
    \/ \E t \in Threads : CommitStep(t)
    \/ \E t \in Threads : StoreAccepted(t)

SpecConc == Init /\ [][NextConc]_vars

\* ------------------------------------------------- claims on the governor

Rejected == call.status \in {"reject", "rejected"}

\* C1: a call that ends in rejection ('contradicts <id>' or 'unprovable')
\* leaves the global rule set exactly as it found it.
C1_RejectionLeavesRuleSet == Rejected => R_global = call.before

\* C2: a call that resolved a DIRECT_NEGATION conflict by replacement returns
\* with the rule set at its old size, the candidate appended in place of the
\* removed rule; it never returns with the rule removed and nothing appended.
C2_ReplacementAtomic ==
    call.resolution = "replaced" =>
        /\ Len(R_global) = Len(call.before)
        /\ call.committed
        /\ R_global[Len(R_global)].id = call.candidate.id
        /\ SubSeq(R_global, 1, Len(R_global) - 1) = RemoveAt(call.before, call.idx)

\* C3: when a call returns accepted, no two rules of the global rule set
\* have the same id.
C3_NoDuplicateIds ==
    call.status = "accepted" =>
        \A i, j \in 1..Len(R_global) : i # j => R_global[i].id # R_global[j].id

\* the rules of the set the call found that are in DIRECT_NEGATION conflict
\* with the candidate as submitted
DirectNegations ==
    {i \in 1..Len(call.before) :
        Detect(call.candidate, call.before[i]) = "DIRECT_NEGATION"}

FirstDirectNegation == CHOOSE k \in DirectNegations : \A j \in DirectNegations : k <= j

\* C4: a candidate in DIRECT_NEGATION conflict with some rule is decided
\* against the first such rule: with strictly higher confidence that rule is
\* removed and the candidate appended, otherwise the call is rejected with
\* 'contradicts <id>' naming it; the check stops at that rule.
C4_FirstDirectNegationDecides ==
    (call.status # "none" /\ DirectNegations # {}) =>
        LET f == FirstDirectNegation IN
        /\ call.idx = f
        /\ IF call.candidate.confidence > call.before[f].confidence
           THEN /\ call.committed
                /\ SubSeq(R_global, 1, Len(R_global) - 1) = RemoveAt(call.before, f)
                /\ R_global[Len(R_global)].id = call.candidate.id
           ELSE /\ call.status = "reject"
                /\ call.reason = [kind |-> "contradicts", id |-> call.before[f].id]
                /\ R_global = call.before

\* the candidate as submitted conflicts with no rule of the set the call found
NoConflict ==
    \A i \in 1..Len(call.before) : Detect(call.candidate, call.before[i]) = "NONE"

\* C17: a candidate that has no conflict with any rule of the global rule
\* set and whose provability is not 'unprovable' is accepted: the call
\* returns accepted with the provability, the candidate becomes the last
\* element of the rule set, the set grows by exactly one and rules_accepted
\* increases by exactly one.
C17_NoConflictAccepted ==
    (call.status # "none" /\ NoConflict
        /\ Analyze(call.candidate, call.before) # "unprovable") =>
        /\ call.status = "accepted"
        /\ call.provability = Analyze(call.candidate, call.before)
        /\ Len(R_global) = Len(call.before) + 1
        /\ SubSeq(R_global, 1, Len(call.before)) = call.before
        /\ R_global[Len(R_global)].id = call.candidate.id
        /\ rules_accepted = call.accepted_before + 1

\* C18: every process_candidate_rule call ends in exactly one terminal
\* decision, REJECTED or ACCEPTED, with a structured result; no call stops
\* in an intermediate state and no branch raises.
C18_EveryCallDecides ==
    call.status # "none" =>
        /\ call.status \in {"reject", "rejected", "accepted"}
        /\ call.status = "accepted" <=> call.committed
        /\ call.status = "accepted" =>
               /\ rules_accepted = call.accepted_before + 1
               /\ R_global[Len(R_global)].id = call.candidate.id
        /\ call.status # "accepted" =>
               /\ rules_accepted = call.accepted_before
               /\ call.reason.kind \in {"contradicts", "unprovable"}

\* the call entered phase 3, confidence scoring
ScoringRan == call.status \in {"accepted", "raised"}

\* C23: in every process_candidate_rule call the phases run in the order
\* contradiction check, provability, confidence scoring, meta-pattern
\* extraction, commit; 'unprovable' ends the call as rejected before
\* scoring; scoring and meta-pattern extraction happen only in calls that
\* end accepted, so a rejected call leaves the scorer's history, the
\* meta-pattern records and the candidate's confidence and source unchanged;
\* the length of the scoring history always equals rules_accepted.
C23_PhasesInOrder ==
    /\ Len(scoring_history) = rules_accepted
    /\ call.status # "none" =>
           /\ call.provability = "unprovable" => call.status = "rejected"
           /\ ScoringRan => call.status = "accepted"
           /\ call.status = "accepted" =>
                  /\ call.provability \in {"provable", "heuristic"}
                  /\ Len(scoring_history) = Len(call.history_before) + 1
                  /\ scoring_history[Len(scoring_history)][2]
                         = call.candidate_after.confidence
                  /\ R_global[Len(R_global)] = call.candidate_after
           /\ Rejected =>
                  /\ scoring_history = call.history_before
                  /\ meta_patterns = call.patterns_before
                  /\ call.candidate_after.confidence = call.candidate.confidence
                  /\ call.candidate_after.source = call.candidate.source

\* the rules of the set the call found that the contradiction check can stop
\* at
Conflicts ==
    {i \in 1..Len(call.before) :
        Detect(call.candidate, call.before[i])
            \in {"DIRECT_NEGATION", "CONTEXT_OVERLAP"}}

FirstConflict == CHOOSE k \in Conflicts : \A j \in Conflicts : k <= j

\* the check met a CONTEXT_OVERLAP conflict before any DIRECT_NEGATION
OverlapFirst ==
    /\ call.status # "none"
    /\ Conflicts # {}
    /\ Detect(call.candidate, call.before[FirstConflict]) = "CONTEXT_OVERLAP"

\* 'restricted_' followed by the first 10 characters of the candidate id
RestrictedName ==
    kw_restricted_ \o
        [i \in 1..(IF Len(call.candidate.id) < 10 THEN Len(call.candidate.id) ELSE 10)
            |-> call.candidate.id[i]]

\* C24: when the contradiction check meets a CONTEXT_OVERLAP conflict before
\* any DIRECT_NEGATION conflict, the candidate's domain becomes a context
\* with the same domain name, subdomain 'restricted_' + the first 10
\* characters of the candidate id and the old features plus restricted; the
\* check stops at that rule, no existing rule is changed, and the call goes
\* on to provability, scoring and commit with the narrowed domain.
C24_ContextOverlapNarrows ==
    OverlapFirst =>
        /\ call.resolution = "contextualized"
        /\ call.idx = FirstConflict
        /\ call.candidate_after.domain.domain = call.candidate.domain.domain
        /\ call.candidate_after.domain.subdomain = Subdomain(RestrictedName)
        /\ call.candidate_after.domain.features
               = call.candidate.domain.features \cup {"restricted"}
        /\ call.candidate_after.id = call.candidate.id
        /\ SubSeq(R_global, 1, Len(call.before)) = call.before
        /\ call.provability
               = Analyze([call.candidate EXCEPT
                             !.domain = call.candidate_after.domain], call.before)
        /\ call.provability # "unprovable" =>
               /\ call.status = "accepted"
               /\ R_global = Append(call.before, call.candidate_after)
               /\ call.candidate_after.confidence
                      = ScoreRule([call.candidate EXCEPT
                                      !.domain = call.candidate_after.domain],
                                  call.before, call.provability)

\* C24 witness: a candidate with an id of more than 10 characters and a
\* feature of its own was narrowed and committed
C24_Witness ==
    /\ OverlapFirst
    /\ Len(call.candidate.id) > 10
    /\ call.candidate.domain.features # {}
    /\ call.status = "accepted"
    /\ R_global[Len(R_global)].domain.subdomain = Subdomain(RestrictedName)

\* the records of one rule type and domain
RecordsOf(patterns, type, domain) ==
    {k \in 1..Len(patterns) :
        patterns[k].type = type /\ patterns[k].domain = domain}

\* C28: the meta-pattern records are unique per (type, domain); an accepted
\* rule creates the record of its type and domain with count 1 (new_pattern
\* true) when there is none and otherwise adds exactly one to its count
\* (new_pattern false); every other record is kept as it was, a call that is
\* not accepted changes no record; the counts sum to rules_accepted and
\* patterns_discovered is the number of records
C28_MetaPatternRecords ==
    /\ \A k, j \in 1..Len(meta_patterns) :
           (/\ meta_patterns[k].type = meta_patterns[j].type
            /\ meta_patterns[k].domain = meta_patterns[j].domain) => k = j
    /\ SumSeq([k \in 1..Len(meta_patterns) |-> meta_patterns[k].count])
           = rules_accepted
    /\ patterns_discovered = Len(meta_patterns)
    /\ call.status \notin {"none", "accepted"}
           => meta_patterns = call.patterns_before
    /\ call.status = "accepted" =>
           LET before == call.patterns_before
               type == ClassifyRuleType(call.candidate_after.id)
               domain == call.candidate_after.domain.domain
               old == RecordsOf(before, type, domain)
           IN  IF old = {}
               THEN /\ call.new_pattern
                    /\ meta_patterns =
                           Append(before, [type |-> type, domain |-> domain,
                                           count |-> 1])
               ELSE /\ ~call.new_pattern
                    /\ \E k \in old :
                           meta_patterns = [before EXCEPT ![k].count = @ + 1]

\* C28 witness: records of one type in two domains, one of them counted twice
C28_Witness ==
    /\ call.status = "accepted"
    /\ ~call.new_pattern
    /\ \E k, j \in 1..Len(meta_patterns) :
           /\ meta_patterns[k].type = meta_patterns[j].type
           /\ meta_patterns[k].domain # meta_patterns[j].domain
           /\ meta_patterns[k].count = 2

\* C35: rules_processed = rules_accepted + rules_rejected and
\* heuristic_failures = rules_rejected in every state; each call adds one to
\* rules_processed and one to exactly one of rules_accepted, rules_rejected
C35_CountersAddUp ==
    /\ rules_processed = rules_accepted + rules_rejected
    /\ heuristic_failures = rules_rejected
    /\ call.status # "none" =>
           /\ rules_accepted \in {call.accepted_before, call.accepted_before + 1}
           /\ rules_accepted = call.accepted_before + 1
                  <=> call.status = "accepted"

\* the pairs of rules of the global rule set that detect classifies as
\* DIRECT_NEGATION
NegatingPairs ==
    {p \in (1..Len(R_global)) \X (1..Len(R_global)) :
        p[1] # p[2] /\ Detect(R_global[p[1]], R_global[p[2]]) = "DIRECT_NEGATION"}

\* C36: no two rules of the global rule set are in a DIRECT_NEGATION conflict
\* with each other; an accepted candidate has none with a rule that remains
C36_NoNegatingPair == NegatingPairs = {}

\* --------------------------------------------- claims on inverse entailment

\* C5: one learn_clause call scores at most max_search_nodes clauses: the
\* increase of clauses_evaluated (zero before the call) never exceeds
\* max_search_nodes.
C5_EvaluationsWithinBudget == clauses_evaluated <= max_search_nodes

\* learn_clause returns none for these inputs and a clause for all others
ExpectNone ==
    \/ positive = <<>>
    \/ ExampleToLiteral(positive[1]) = None
    \/ \A i \in 1..Len(evaluated) : evaluated[i][2] <= 0

\* C6: learn_clause always completes with a value and never aborts with an
\* error: none without a positive example, with a seed that converts to no
\* head literal, or when no clause scores strictly positive, else a clause.
C6_NeverRaises ==
    /\ ile_pc # "raised"
    /\ ile_pc = "returned" => (hypothesis = None <=> ExpectNone)

\* the highest score among the clauses evaluated so far
MaxEvaluated ==
    CHOOSE m \in {evaluated[i][2] : i \in 1..Len(evaluated)} :
        \A i \in 1..Len(evaluated) : evaluated[i][2] <= m

\* the first evaluated clause that attains it
FirstBest ==
    LET at == {i \in 1..Len(evaluated) : evaluated[i][2] = MaxEvaluated}
    IN  evaluated[CHOOSE i \in at : \A j \in at : i <= j][1]

\* C7: learn_clause returns none whenever the best score over the evaluated
\* clauses is <= 0, and otherwise returns the first evaluated clause that
\* attains the maximum score; during the search the tracked best clause is
\* that first maximum (a tie never replaces it).
C7_ReturnsFirstBestIfPositive ==
    /\ evaluated # <<>> =>
           /\ best_score = [neg_inf |-> FALSE, val |-> MaxEvaluated]
           /\ best_clause = Some(FirstBest)
    /\ ile_pc = "returned" =>
           hypothesis = IF evaluated # <<>> /\ MaxEvaluated > 0
                        THEN Some(FirstBest) ELSE None

\* C7 witness: a search over several clauses has returned a clause
C7_Witness ==
    /\ ile_pc = "returned"
    /\ Len(evaluated) >= 2
    /\ hypothesis # None

\* C8: the bottom clause has body length <= max_clause_length however many
\* literals the seed carries, and so has every clause placed in the beam.
C8_BodyLengthBounded ==
    /\ \A i \in 1..Len(bottom) : ClauseLength(bottom[i]) <= max_clause_length
    /\ \A i \in 1..Len(beam) : ClauseLength(beam[i]) <= max_clause_length

\* C8 witness: a seed with more literals than max_clause_length has given a
\* bottom clause, cut to the limit, and the search has refined it into a beam
C8_Witness ==
    /\ ile_pc = "search"
    /\ nodes_explored > 0
    /\ Cardinality(positive[1].facts) > max_clause_length
    /\ ClauseLength(bottom[1]) = max_clause_length
    /\ beam # <<>>

\* the clauses the search has handled
SearchedClauses ==
    {bottom[i] : i \in 1..Len(bottom)} \cup {beam[i] : i \in 1..Len(beam)}
        \cup {evaluated[i][1] : i \in 1..Len(evaluated)}

\* child is parent without its i-th body literal, the others in order
RemovesLiteral(parent, child, i) ==
    /\ child.head = parent.head
    /\ child.body = SubSeq(parent.body, 1, i - 1)
                        \o SubSeq(parent.body, i + 1, Len(parent.body))

\* refining clause at most steps times reaches a clause with an empty body
RECURSIVE ReachesEmptyBody(_, _)
ReachesEmptyBody(clause, steps) ==
    \/ clause.body = <<>>
    \/ /\ steps > 0
       /\ \E i \in 1..Len(RefineClause(clause)) :
              ReachesEmptyBody(RefineClause(clause)[i], steps - 1)

\* C9: _refine_clause on a clause of body length n returns n clauses, the
\* i-th with the parent's head and the parent's body without its i-th literal
\* (order kept), so of body length n-1; an empty body has no refinements, and
\* repeated refinement reaches the empty-body clause.
C9_RefinementRemovesOneLiteral ==
    \A c \in SearchedClauses :
        LET r == RefineClause(c)
            n == Len(c.body)
        IN  /\ Len(r) = n
            /\ \A i \in 1..Len(r) :
                   RemovesLiteral(c, r[i], i) /\ Len(r[i].body) = n - 1
            /\ ReachesEmptyBody(c, n)

\* C9 witness: a bottom clause of two body literals was refined into a beam
\* whose clause can be refined again
C9_Witness ==
    /\ ile_pc = "search"
    /\ nodes_explored > 0
    /\ Len(bottom[1].body) = 2
    /\ beam # <<>>
    /\ Len(beam[1].body) = 1

\* C10: the search ends by the loop's exit, and when it ends with node
\* budget left the empty-body clause has been evaluated.
C10_EmptyBodyEvaluated ==
    (bottom # None /\ ile_pc \in {"returned", "raised"}
        /\ nodes_explored < max_search_nodes) =>
        /\ ile_pc = "returned"
        /\ \E i \in 1..Len(evaluated) : evaluated[i][1].body = <<>>

\* the early-exit test at the end of a beam iteration
EarlyExitDue == nodes_explored > EarlyExitNodes /\ ~IsPositive(best_score)

\* C31: the search goes on to no further iteration once more than 100 clauses
\* are evaluated with a best score <= 0; a search that has ended has ended
\* by that early exit, with the beam empty or with the node budget reached,
\* and with a best score > 0 only by the latter two
C31_EarlyExit ==
    /\ ile_pc = "search" => ~EarlyExitDue
    /\ (bottom # None /\ ile_pc \in {"returned", "raised"}) =>
           \/ EarlyExitDue
           \/ beam = <<>>
           \/ nodes_explored >= max_search_nodes

\* C37: with the default limits every clause learn_clause returns has an
\* empty body: two evaluated clauses differ in score by the difference of
\* their body lengths, the shorter scoring more, and once the empty-body
\* clause is evaluated it is the best clause
C37_ReturnsEmptyBody ==
    /\ \A i, j \in 1..Len(evaluated) :
           evaluated[i][2] - evaluated[j][2]
               = Len(evaluated[j][1].body) - Len(evaluated[i][1].body)
    /\ (\E i \in 1..Len(evaluated) : evaluated[i][1].body = <<>>)
           => (best_clause # None /\ best_clause[1].body = <<>>)
    /\ (ile_pc = "returned" /\ hypothesis # None) => hypothesis[1].body = <<>>

\* C37 witness: a search that started from a bottom clause with a body has
\* returned a clause
C37_Witness ==
    /\ max_clause_length = DefaultMaxClauseLength
    /\ max_search_nodes = DefaultMaxSearchNodes
    /\ ile_pc = "returned"
    /\ hypothesis # None
    /\ bottom[1].body # <<>>
    /\ Len(evaluated) >= 2

\* the examples of a list whose head literal has predicate p
WithPredicate(examples, p) ==
    {i \in 1..Len(examples) :
        /\ examples[i].has_predicate
        /\ examples[i].predicate = p}

\* positives minus negatives among the examples that share the seed's head
\* predicate
Margin ==
    Cardinality(WithPredicate(positive, positive[1].predicate))
        - Cardinality(WithPredicate(negative, positive[1].predicate))

\* C38: learn_clause returns a clause only if the positive examples with the
\* seed's head predicate outnumber the negative ones with it by at least 2;
\* a call with a single positive example returns none
C38_MarginAtLeastTwo ==
    ile_pc = "returned" =>
        /\ hypothesis # None => Margin >= 2
        /\ Len(positive) = 1 => hypothesis = None

\* C38 witness: a call with a negative example of the seed's predicate and a
\* margin of exactly 2 has returned a clause
C38_Witness ==
    /\ ile_pc = "returned"
    /\ hypothesis # None
    /\ WithPredicate(negative, positive[1].predicate) # {}
    /\ Margin = 2

\* the literals of a clause, head first
LiteralsOf(head, body) == <<head>> \o body

\* the term occurrences of a literal list: <<literal, position>>
Occurrences(lits) ==
    {<<i, j>> : i \in 1..Len(lits), j \in 1..3} \cap
    UNION {{<<i, j>> : j \in 1..Len(lits[i].terms)} : i \in 1..Len(lits)}

\* C29: in the clause _variabilize produces every term is a variable, and
\* two term occurrences carry the same variable if and only if they were the
\* same term in the literals given to it
C29_VariabilizeConsistent ==
    variabilized # None =>
        LET seed == LiteralsOf(variabilized[1].head, variabilized[1].body)
            out == LiteralsOf(variabilized[1].clause.head,
                              variabilized[1].clause.body)
        IN  /\ Len(out) = Len(seed)
            /\ \A i \in 1..Len(seed) :
                   /\ out[i].predicate = seed[i].predicate
                   /\ Len(out[i].terms) = Len(seed[i].terms)
            /\ \A o \in Occurrences(out) : IsVariable(out[o[1]].terms[o[2]])
            /\ \A o1, o2 \in Occurrences(seed) :
                   out[o1[1]].terms[o1[2]] = out[o2[1]].terms[o2[2]]
                       <=> seed[o1[1]].terms[o1[2]] = seed[o2[1]].terms[o2[2]]

\* C30: the bottom clause does not depend on the background: for every
\* background the seed gives the same body literals and the same bottom
\* clause; the body holds exactly the seed's own facts, the saturation loop
\* ends within 3 rounds and adds no literal
C30_BackgroundIgnored ==
    variabilized # None =>
        LET seed == positive[1]
            facts == ExtractFactsFromExample(seed)
            body_list == variabilized[1].body
        IN  /\ {body_list[k] : k \in 1..Len(body_list)} = facts
            /\ Len(body_list) = Cardinality(facts)
            /\ BodyLiterals(seed, ile_background) = facts
            /\ SaturateRounds(facts, facts, 0, ile_background) <= 3
            /\ \A other \in Backgrounds :
                   /\ BodyLiterals(seed, other)
                          = BodyLiterals(seed, ile_background)
                   /\ \A order \in Orderings(BodyLiterals(seed, other)) :
                          order = body_list =>
                              ConstructBottomClause(seed, other, order,
                                                    max_clause_length) = bottom

\* C30 witness: a call with a background clause whose body matches a fact of
\* the seed has built its bottom clause and returned
C30_Witness ==
    /\ variabilized # None
    /\ ile_background # <<>>
    /\ ile_pc = "returned"
    /\ \E k \in 1..Len(variabilized[1].body) :
           variabilized[1].body[k].predicate
               = ile_background[1].body[1].predicate

\* ----------------------------------------------- claims on the scorer

\* C11: score_rule returns, for every rule, rule set, provability and source,
\* a final_score in [0,1].
C11_ScoreInUnitInterval ==
    score_call.status # "none" =>
        /\ score_call.status = "returned"
        /\ score_call.final_score \in 0..Scale

\* the rules the subsystem holds or has built
HeldRules ==
    {R_global[i] : i \in 1..Len(R_global)} \cup {pending[i] : i \in 1..Len(pending)}
        \cup {learned_rules[i] : i \in 1..Len(learned_rules)}
        \cup (IF call.status = "none" THEN {} ELSE {call.candidate})

\* C12: every rule of the global rule set and every candidate built by
\* learn_from_examples, before and after it is processed, has a confidence
\* in [0,1].
C12_ConfidenceInUnitInterval ==
    \A r \in HeldRules : r.confidence \in 0..Scale

\* --------------------------------- claims on the detector and provability

\* the lower-cased ids hold the two members of one inverse pair, one each
HoldInversePair(id1, id2) ==
    \E p \in InversePairs :
        \/ IsSubstring(p[1], Lower(id1)) /\ IsSubstring(p[2], Lower(id2))
        \/ IsSubstring(p[2], Lower(id1)) /\ IsSubstring(p[1], Lower(id2))

\* C13: detect checks DIRECT_NEGATION, CONTEXT_OVERLAP, SPECIAL_GENERAL, NONE
\* in that order: a pair whose ids hold an inverse pair and whose domain
\* similarity is > 0.5 is DIRECT_NEGATION even if it also meets the
\* CONTEXT_OVERLAP or the SPECIAL_GENERAL condition.
C13_DetectOrder ==
    pure_call.fn = "detect" =>
        LET r1 == pure_call.args[1]
            r2 == pure_call.args[2]
            sim == Similarity(r1.domain, r2.domain)
            negation == HoldInversePair(r1.id, r2.id) /\ 10 * sim > 5 * Scale
            overlap == 10 * sim > 7 * Scale /\ r1.priority = r2.priority
                           /\ r1.id # r2.id
            special == IsSubstring(kw_specific, Lower(r1.id))
                           /\ IsSubstring(kw_general, Lower(r2.id))
        IN  pure_call.result =
                IF negation THEN "DIRECT_NEGATION"
                ELSE IF overlap THEN "CONTEXT_OVERLAP"
                ELSE IF special THEN "SPECIAL_GENERAL"
                ELSE "NONE"

\* C13 witness: a pair that meets all three conditions was given to detect
C13_Witness ==
    /\ pure_call.fn = "detect"
    /\ pure_call.args[1].id = id_Expand_specific
    /\ pure_call.args[2].id = id_factor_general
    /\ pure_call.args[1].priority = pure_call.args[2].priority
    /\ pure_call.args[1].domain = pure_call.args[2].domain
    /\ pure_call.result = "DIRECT_NEGATION"

\* the type the claim gives an id: the first of commutative, associative,
\* distributive, identity, inverse, zero found in the lower-cased id
FirstKeywordType(id) ==
    LET l == Lower(id)
    IN  IF IsSubstring(kw_commutative, l) THEN "commutative"
        ELSE IF IsSubstring(kw_associative, l) THEN "associative"
        ELSE IF IsSubstring(kw_distributive, l) THEN "distributive"
        ELSE IF IsSubstring(kw_identity, l) THEN "identity"
        ELSE IF IsSubstring(kw_inverse, l) THEN "inverse"
        ELSE IF IsSubstring(kw_zero, l) THEN "zero"
        ELSE "general"

\* C14: analyze returns 'provable' exactly when the candidate's type is
\* 'distributive' and the types of the existing rules include both
\* 'commutative' and 'associative', a rule's type being the first keyword of
\* the ordered list found in its lower-cased id, else 'general'.
C14_ProvableIffDistributive ==
    pure_call.fn = "analyze" =>
        LET candidate == pure_call.args[1]
            existing == pure_call.args[2]
            types == {FirstKeywordType(existing[i].id) : i \in 1..Len(existing)}
        IN  (pure_call.result = "provable")
                <=> /\ FirstKeywordType(candidate.id) = "distributive"
                    /\ "commutative" \in types
                    /\ "associative" \in types

\* C14 witness: a candidate whose id holds 'zero' before 'distributive' was
\* found provable from a commutative and an inverse_associative rule
C14_Witness ==
    /\ pure_call.fn = "analyze"
    /\ pure_call.args[1].id = id_zero_distributive
    /\ Len(pure_call.args[2]) = 2
    /\ pure_call.args[2][2].id = id_inverse_associative
    /\ pure_call.result = "provable"

\* some existing rule of the analyze call is in DIRECT_NEGATION conflict with
\* the candidate
HasDirectNegation ==
    \E i \in 1..Len(pure_call.args[2]) :
        /\ HoldInversePair(pure_call.args[1].id, pure_call.args[2][i].id)
        /\ 10 * Similarity(pure_call.args[1].domain, pure_call.args[2][i].domain)
               > 5 * Scale

\* the candidate of the analyze call is derivable
Derivable ==
    LET types == {FirstKeywordType(pure_call.args[2][i].id) :
                     i \in 1..Len(pure_call.args[2])}
    IN  /\ FirstKeywordType(pure_call.args[1].id) = "distributive"
        /\ "commutative" \in types
        /\ "associative" \in types

\* C22: analyze is total with three mutually exclusive results: a candidate
\* that is not derivable is 'unprovable' exactly when it has a
\* DIRECT_NEGATION conflict with at least one existing rule and 'heuristic'
\* exactly when it has none; a derivable candidate is 'provable' whether or
\* not it has such a conflict.
C22_AnalyzeThreeWay ==
    pure_call.fn = "analyze" =>
        /\ pure_call.result \in {"provable", "heuristic", "unprovable"}
        /\ Derivable => pure_call.result = "provable"
        /\ ~Derivable =>
               /\ (pure_call.result = "unprovable") <=> HasDirectNegation
               /\ (pure_call.result = "heuristic") <=> ~HasDirectNegation

\* C22 witness: a derivable candidate in DIRECT_NEGATION conflict with an
\* existing rule was found provable
C22_Witness ==
    /\ pure_call.fn = "analyze"
    /\ Derivable
    /\ HasDirectNegation
    /\ pure_call.result = "provable"

\* C25: when neither DIRECT_NEGATION nor CONTEXT_OVERLAP applies, detect
\* returns SPECIAL_GENERAL whenever one rule's id holds 'specific' and the
\* other's 'general', whichever is passed first; so detect(A, B) and
\* detect(B, A) report the same conflict type for every pair of rules.
C25_DetectSymmetric ==
    pure_call.fn = "detect" =>
        LET r1 == pure_call.args[1]
            r2 == pure_call.args[2]
            oneEach ==
                \/ IsSubstring(kw_specific, Lower(r1.id))
                       /\ IsSubstring(kw_general, Lower(r2.id))
                \/ IsSubstring(kw_specific, Lower(r2.id))
                       /\ IsSubstring(kw_general, Lower(r1.id))
        IN  /\ pure_call.result = Detect(r2, r1)
            /\ (oneEach /\ pure_call.result
                               \notin {"DIRECT_NEGATION", "CONTEXT_OVERLAP"})
                   => pure_call.result = "SPECIAL_GENERAL"

\* a subdomain that is specified: any string given in place of None
Specified(sub) == sub.some

\* C26: similarity is 0 when the domains differ; with equal domains it is 1.0
\* when the subdomains are equal (both absent included), 0.5 when both sides
\* specify different subdomains and 0.7 when exactly one side specifies one;
\* it is symmetric and does not look at the features
C26_SimilarityCases ==
    pure_call.fn = "similarity" =>
        LET c1 == pure_call.args[1]
            c2 == pure_call.args[2]
            r == pure_call.result
        IN  /\ c1.domain # c2.domain => r = 0
            /\ (c1.domain = c2.domain /\ c1.subdomain = c2.subdomain) => r = Scale
            /\ (/\ c1.domain = c2.domain
                /\ Specified(c1.subdomain) /\ Specified(c2.subdomain)
                /\ c1.subdomain # c2.subdomain) => r = Scale \div 2
            /\ (/\ c1.domain = c2.domain
                /\ Specified(c1.subdomain) # Specified(c2.subdomain))
                   => r = (7 * Scale) \div 10
            /\ r = Similarity(c2, c1)
            /\ \A f1, f2 \in SUBSET {"linear", "restricted"} :
                   r = Similarity([c1 EXCEPT !.features = f1],
                                  [c2 EXCEPT !.features = f2])

\* C27: the support component of a score is 0.3 whenever no existing rule is
\* similar to the scored rule, for an empty set of existing rules and for a
\* non-empty set that holds no similar rule alike
C27_NoSimilarSupport ==
    (/\ score_call.status = "returned"
     /\ \A i \in 1..Len(score_call.existing) :
            ~AreSimilar(score_call.rule[1], score_call.existing[i]))
        => score_call.support = (3 * Scale) \div 10

\* C34: a learn_from_examples call with fewer than two examples returns
\* rules_learned 0 with error insufficient_examples and changes nothing: no
\* candidate is built or processed, no governor or inverse-entailment
\* counter moves, the global rule set stays and no node is sent a package
C34_TooFewExamples ==
    [][ (learn_result' # learn_result /\ learn_result'.examples < 2) =>
            /\ learn_result'.status = "returned"
            /\ learn_result'.rules_learned = 0
            /\ learn_result'.error = "insufficient_examples"
            /\ UNCHANGED <<govVars, ileVars, fleetVars, pending, learned_rules>>
      ]_vars

\* C34 witness: an engine that had learned and distributed three rules has
\* turned away a call with one example
C34_Witness ==
    /\ learn_result.examples = 1
    /\ learn_result.error = "insufficient_examples"
    /\ rules_accepted = 3
    /\ deliveries # <<>>
    /\ Len(R_global) = Len(CoreRules) + 3

\* ---------------------------------------------------- claims on the nodes

\* a signature with one of the prefixes a node recognizes
RecognizedPrefix(signature) ==
    StartsWith(signature, kw_sig_) \/ StartsWith(signature, kw_GLOBAL_)

\* C33: a package whose signature has no recognized prefix is rejected with
\* reason invalid_signature and changes no rule store and no update log;
\* only a package that passes and has operation add appends its rule, one
\* entry to the node's store and one to its log, and is answered added
C33_ValidateBeforeMutate ==
    [][ deliveries' # deliveries =>
          LET d == deliveries'[Len(deliveries')]
              id == d.node_id
              adds == RecognizedPrefix(d.package.signature)
                         /\ d.package.operation = "add"
          IN  /\ ~RecognizedPrefix(d.package.signature) =>
                     d.result = NodeResult("rejected", "invalid_signature", <<>>)
              /\ ~adds => (R_local' = R_local /\ update_log' = update_log)
              /\ d.result.status = "added" <=> adds
              /\ adds =>
                     /\ R_local' = [R_local EXCEPT
                                       ![id] = Append(@, d.package.rule)]
                     /\ Len(update_log'[id]) = Len(update_log[id]) + 1
                     /\ \A other \in NodeIds \ {id} :
                            update_log'[other] = update_log[other] ]_vars

\* C33 witness: a node that had stored a rule has rejected a package for its
\* signature
C33_Witness ==
    /\ Len(deliveries) = 2
    /\ deliveries[1].result.status = "added"
    /\ deliveries[2].node_id = deliveries[1].node_id
    /\ deliveries[2].package.operation = "add"
    /\ deliveries[2].result.reason = "invalid_signature"
    /\ Len(R_local[deliveries[2].node_id]) = Len(CoreRules) + 1

\* C40: the node's signature check and the manager's validity check accept
\* the same signatures, so a node stores no rule of a package the manager
\* calls invalid
C40_SameSignaturesAccepted ==
    \A k \in 1..Len(deliveries) :
        /\ ValidateSignature(deliveries[k].package.signature)
               <=> IsValid(deliveries[k].package.signature)
        /\ deliveries[k].result.status = "added"
               => IsValid(deliveries[k].package.signature)

\* --------------------------------------------------------- claims on Rule

\* C32: is_applicable returns -1 when the condition raises and else the
\* condition's value, and moves no counter; apply returns its input when the
\* transform raises and else the transform's value, adds one to
\* application_count on every call and one to success_count only when the
\* transform returned; success_count <= application_count
C32_ExceptionSafe ==
    /\ success_count <= application_count
    /\ rule_call.fn = "is_applicable" =>
           /\ rule_call.result = IF rule_call.outcome.raises THEN -1
                                  ELSE rule_call.outcome.value
           /\ application_count = rule_call.applications_before
           /\ success_count = rule_call.successes_before
    /\ rule_call.fn = "apply" =>
           /\ rule_call.result = IF rule_call.outcome.raises THEN rule_call.expr
                                  ELSE rule_call.outcome.value
           /\ application_count = rule_call.applications_before + 1
           /\ success_count = rule_call.successes_before
                                  + (IF rule_call.outcome.raises THEN 0 ELSE 1)

\* C32 witness: after a transform that raised and one that returned, a
\* condition has raised
C32_Witness ==
    /\ application_count >= 2
    /\ 0 < success_count
    /\ success_count < application_count
    /\ rule_call.fn = "is_applicable"
    /\ rule_call.outcome.raises

\* ------------------------------------------------ claims on distribution

\* the receive_rule_package calls of the last distribution call
LastDeliveries == SubSeq(deliveries, dist_call.first + 1, Len(deliveries))

\* C15: broadcast_global_rule with operation add on a fleet of N nodes builds
\* one package with no target list, delivers it to every node exactly once,
\* returns total_nodes = N and nodes_updated = the number of nodes that
\* reported added; each accepting node's rule store grows by that one rule.
C15_BroadcastReachesEveryNodeOnce ==
    (dist_call.fn = "broadcast" /\ dist_call.operation = "add") =>
        LET ds == LastDeliveries
            added == {k \in 1..Len(ds) : ds[k].result.status = "added"}
        IN  /\ \A id \in NodeIds :
                   Cardinality({k \in 1..Len(ds) : ds[k].node_id = id}) = 1
            /\ Len(ds) = Cardinality(NodeIds)
            /\ \A k \in 1..Len(ds) :
                   /\ ds[k].package = ds[1].package
                   /\ ds[k].package.target_node_ids = None
                   /\ ds[k].package.rule = dist_call.rule
            /\ dist_call.result.total_nodes = Cardinality(NodeIds)
            /\ dist_call.result.nodes_updated = Cardinality(added)
            /\ \A k \in added :
                   R_local[ds[k].node_id] =
                       Append(dist_call.before[ds[k].node_id], dist_call.rule)
            /\ \A id \in NodeIds :
                   (\A k \in added : ds[k].node_id # id) =>
                       R_local[id] = dist_call.before[id]

\* C15 witness: the second call was a broadcast with operation add that every
\* node accepted, on a fleet whose stores already differed
C15_Witness ==
    /\ dist_call.fn = "broadcast"
    /\ dist_call.operation = "add"
    /\ dist_call.n = 2
    /\ dist_call.result.nodes_updated = NumLayers * NodesPerLayer
    /\ dist_call.result.total_nodes = NumLayers * NodesPerLayer
    /\ \E a, b \in NodeIds : dist_call.before[a] # dist_call.before[b]

\* C16: send_to_specific_nodes returns total = the number of target ids with
\* one details entry per id in list order; an id that names no node yields
\* not_found and every id after it is still processed; successful = the
\* number of entries whose status is added or modified.
C16_SendReportsEveryTarget ==
    dist_call.fn = "send" =>
        LET details == dist_call.result.details
            targets == dist_call.targets
            ok == {k \in 1..Len(details) :
                      details[k].result.status \in {"added", "modified"}}
            existing == {k \in 1..Len(targets) : targets[k] \in NodeIds}
        IN  /\ dist_call.result.total = Len(targets)
            /\ Len(details) = Len(targets)
            /\ \A k \in 1..Len(targets) :
                   /\ details[k].node_id = targets[k]
                   /\ (details[k].result.status = "not_found") <=> k \notin existing
            /\ Len(LastDeliveries) = Cardinality(existing)
            /\ dist_call.result.successful = Cardinality(ok)
            /\ dist_call.operation = "add" => ok = existing

\* C16 witness: an id that names no node came first and the node named after
\* it still received its package: successful 1 of total 2
C16_Witness ==
    /\ dist_call.fn = "send"
    /\ dist_call.operation = "add"
    /\ dist_call.targets = <<NodeId(9, 9), NodeId(1, 0)>>
    /\ dist_call.result.successful = 1
    /\ dist_call.result.total = 2
    /\ dist_call.result.details[1].result.status = "not_found"
    /\ dist_call.result.details[2].result.status = "added"

\* C19: every package built by broadcast_global_rule or
\* send_to_specific_nodes carries a signature with a recognized prefix: a
\* broadcast the manager's one global signature, prefixed GLOBAL_SIG_ and the
\* same for the manager's lifetime, a targeted package a one-time signature
\* prefixed sig_ that no other package carries; is_valid holds for every
\* package sent and no node rejects one for an invalid signature.
C19_SignaturesRecognized ==
    /\ global_signature = GlobalSignatureAt(StartTime)
    /\ \A k \in 1..Len(deliveries) :
           LET package == deliveries[k].package
           IN  /\ IsValid(package.signature)
               /\ deliveries[k].result.reason # "invalid_signature"
               /\ package.target_node_ids = None =>
                      /\ package.signature = global_signature
                      /\ StartsWith(package.signature, kw_GLOBAL_SIG_)
               /\ package.target_node_ids # None =>
                      /\ StartsWith(package.signature, kw_sig_)
                      /\ \A j \in 1..Len(deliveries) :
                             deliveries[j].package.signature = package.signature
                                 => j = k

\* C19 witness: a broadcast was delivered, and so were two targeted packages
\* built at the same clock value
C19_Witness ==
    /\ \E k \in 1..Len(deliveries) : deliveries[k].package.target_node_ids = None
    /\ \E j, k \in 1..Len(deliveries) :
           /\ j # k
           /\ deliveries[j].package.target_node_ids # None
           /\ deliveries[k].package.target_node_ids # None
           /\ deliveries[j].package.timestamp = deliveries[k].package.timestamp

\* ------------------------------------------------- claims on concurrency

AllCallsComplete ==
    /\ conc_hist.started > 0
    /\ \A t \in Threads : threads[t].pc \in {"idle", "done"}

\* C20: when process_candidate_rule calls on one governor interleave, no
\* update is lost: after all calls complete rules_processed equals the
\* number of calls, rules_accepted + rules_rejected equals rules_processed
\* and every accepted candidate is in the rule set (or was replaced by a
\* later call), and no call reads the rule set while another call is
\* between the remove and the append of a replacement.
C20_SingleWriter ==
    /\ \A t \in Threads : ~threads[t].saw_half_done
    /\ AllCallsComplete =>
           /\ rules_processed = conc_hist.started
           /\ rules_accepted + rules_rejected = rules_processed
           /\ \A id \in conc_hist.accepted :
                  \/ \E k \in 1..Len(R_global) : R_global[k].id = id
                  \/ id \in conc_hist.replaced

\* ------------------------------------------- claims on learn_from_examples

\* C21: within one learn_from_examples call learning completes before
\* distribution begins: every process_candidate_rule call of it happens
\* before the first package is delivered to any node, and from the first
\* delivery on the global rule set and the governor's counters are not
\* modified again.
C21_LearningBeforeDistribution ==
    [][/\ rules_processed' # rules_processed => deliveries' = <<>>
       /\ (deliveries # <<>> \/ deliveries' # deliveries) =>
              /\ pending = <<>>
              /\ R_global' = R_global
              /\ rules_processed' = rules_processed
              /\ rules_accepted' = rules_accepted
              /\ rules_rejected' = rules_rejected]_vars

\* C21 witness: a call processed three candidates, accepted them and then
\* delivered packages to the nodes
C21_Witness ==
    /\ learn_pc = "done"
    /\ rules_processed = 3
    /\ Len(learned_rules) = 3
    /\ Len(deliveries) = 3 * NumLayers * NodesPerLayer

\* C39: every rule that learn_from_examples sends to the nodes is in the
\* global rule set when it is sent (the rule set does not change between the
\* first package of a call and its return)
C39_DistributedAreGlobal ==
    \A k \in 1..Len(deliveries) :
        \E i \in 1..Len(R_global) : R_global[i] = deliveries[k].package.rule


=============================================================================
